---- MODULE Spec2Model ----
(***************************************************************************)
(* The batch reconciliation loop of paperless-llm-processor               *)
(* (cmd/batch/main.go) together with the parts of the Paperless-ngx       *)
(* client (internal/paperless/client.go) it drives: selection of the      *)
(* unprocessed documents, per-page analysis and merge, taxonomy           *)
(* resolution, construction of the PATCH payload and its application.     *)
(*                                                                         *)
(* Representation:                                                         *)
(*   - a Go string is a TLA+ string, "" the empty string;                  *)
(*   - a nil-able Go pointer is a sequence of length 0 (nil)              *)
(*     or 1 (the pointee);                                                 *)
(*   - a Go slice is a sequence, a Go map[K]bool a set, a map[string]int   *)
(*     a function whose DOMAIN is the set of keys present;                 *)
(*   - a custom field is identified by its name (the store's numeric id    *)
(*     of the field is in bijection with it).                              *)
(***************************************************************************)
EXTENDS Integers, Sequences, FiniteSets, TLC

----------------------------------------------------------------------------
(* Bounds of the model. *)

\* number of documents in the store
MaxDocs == 2
\* largest number of page images a rasterization yields in Spec
MaxPages == 2
\* number of batch runs executed one after the other
MaxRuns == 2
\* largest process version (processID) a run is built with
MaxVersion == 2
\* largest number of pages of the document merged in SpecMerge
MaxMergePages == 2
\* largest length of one query's answer in SpecList
MaxListLen == 2
\* most characters of UPDATE_FIELDS in SpecMask
MaxEnvLen == 5
\* most tags of the merged result in SpecResolve
MaxResolveTags == 3

Docs == 1..MaxDocs
Versions == 1..MaxVersion

\* the value of llm-process-id on a document that does not carry the field
NoMarker == -1

----------------------------------------------------------------------------
(* Names fixed by the program. *)

fieldName == "llm-process-id"
summaryFieldName == "llm-summary"
modelFieldName == "llm-model"
skipFieldName == "llm-skip"
ollamaModel == "qwen3-vl:4b-instruct"

\* the default value of updateFields
AllFields ==
  {"title", "document_type", "document_date", "summary", "content",
   "correspondent", "tags"}

----------------------------------------------------------------------------
(* Sequences helpers. *)

Range(s) == {s[k] : k \in DOMAIN s}

SeqsUpTo(S, n) == UNION {[1..k -> S] : k \in 0..n}

NoDup(s) == \A a, b \in DOMAIN s : a # b => s[a] # s[b]

\* strings.Join(elems, sep)
RECURSIVE Join(_, _)
Join(elems, sep) ==
  IF elems = <<>> THEN ""
  ELSE IF Len(elems) = 1 THEN elems[1]
  ELSE elems[1] \o sep \o Join(Tail(elems), sep)

----------------------------------------------------------------------------
(* Document store: what Paperless-ngx answers to the three filtered        *)
(* listings ListUnprocessedDocuments asks for.                             *)

\* custom_field_query [fieldName, "exists", false]
QueryExistsFalse(st) == {d \in Docs : st[d].marker = NoMarker}

\* custom_field_query [fieldName, "lt", processID]
QueryLtLe(st, processID) ==
  {d \in Docs : st[d].marker # NoMarker /\ st[d].marker <= processID}

QueryLt(st, processID) ==
  {d \in Docs : st[d].marker # NoMarker /\ st[d].marker < processID}

\* custom_field_query [skipFieldName, "exact", true]
QueryExactTrue(st) == {d \in Docs : st[d].skip}

\* listDocuments: the concatenated pages of one listing whose matching set
\* is S.  Every match is listed; neighbouring pages may overlap, so a
\* document may be listed twice.
ListAnswers(S) ==
  {s \in SeqsUpTo(S, Cardinality(S) + 1) : Range(s) = S}

----------------------------------------------------------------------------
(* ListUnprocessedDocuments, client.go:470-480: deduplicate and exclude    *)
(* the skipped documents.                                                  *)

RECURSIVE DedupExcludeNoDedup(_, _, _)
DedupExcludeNoDedup(all, seen, skipIDs) ==
  IF all = <<>> THEN <<>>
  ELSE IF Head(all) \notin skipIDs
       THEN <<Head(all)>> \o DedupExcludeNoDedup(Tail(all), seen, skipIDs)
       ELSE DedupExcludeNoDedup(Tail(all), seen, skipIDs)

RECURSIVE DedupExcludeNoSkip(_, _, _)
DedupExcludeNoSkip(all, seen, skipIDs) ==
  IF all = <<>> THEN <<>>
  ELSE IF Head(all) \notin seen
       THEN <<Head(all)>> \o DedupExcludeNoSkip(Tail(all), seen \cup {Head(all)}, skipIDs)
       ELSE DedupExcludeNoSkip(Tail(all), seen, skipIDs)

RECURSIVE DedupExclude(_, _, _)
DedupExclude(all, seen, skipIDs) ==
  IF all = <<>> THEN <<>>
  ELSE IF Head(all) \notin seen /\ Head(all) \notin skipIDs
       THEN <<Head(all)>> \o DedupExclude(Tail(all), seen \cup {Head(all)}, skipIDs)
       ELSE DedupExclude(Tail(all), seen, skipIDs)

\* the result of ListUnprocessedDocuments from the three listings' answers
UnprocessedDocuments(nullAns, ltAns, skipAns) ==
  DedupExclude(nullAns \o ltAns, {}, Range(skipAns))

----------------------------------------------------------------------------
(* The per-page merge, cmd/batch/main.go:171-198.                          *)

\* var merged ollama.DocumentAnalysis
EmptyAnalysis ==
  [Summary |-> "", Transcription |-> "", FileName |-> "", DocumentType |-> "",
   DocumentDate |-> "", Correspondent |-> "", Tags |-> <<>>]

\* if v != "" { list = append(list, v) }
AppendAlways(list, v) == Append(list, v)

AppendNonEmpty(list, v) == IF v # "" THEN Append(list, v) ELSE list

\* if merged.X == "" && pageResult.X != "" { merged.X = pageResult.X }
LastNonEmpty(cur, new) == IF new # "" THEN new ELSE cur

FirstNonEmpty(cur, new) == IF cur = "" /\ new # "" THEN new ELSE cur

\* for _, t := range pageResult.Tags { if t != "" && !seenTags[t] {...} }
\* yields the pair <<merged.Tags, seenTags>>
RECURSIVE MergeTagsNoDedup(_, _, _)
MergeTagsNoDedup(tags, seen, pageTags) ==
  IF pageTags = <<>> THEN <<tags, seen>>
  ELSE IF Head(pageTags) # ""
       THEN MergeTagsNoDedup(Append(tags, Head(pageTags)),
                             seen \cup {Head(pageTags)}, Tail(pageTags))
       ELSE MergeTagsNoDedup(tags, seen, Tail(pageTags))

RECURSIVE MergeTags(_, _, _)
MergeTags(tags, seen, pageTags) ==
  IF pageTags = <<>> THEN <<tags, seen>>
  ELSE IF Head(pageTags) # "" /\ Head(pageTags) \notin seen
       THEN MergeTags(Append(tags, Head(pageTags)),
                      seen \cup {Head(pageTags)}, Tail(pageTags))
       ELSE MergeTags(tags, seen, Tail(pageTags))

\* one iteration of the page loop after a successful AnalyzeStructured:
\* m is the record of merged, summaries, transcriptions and seenTags
MergePage(m, pageResult) ==
  LET t == MergeTags(m.merged.Tags, m.seenTags, pageResult.Tags)
  IN [merged |->
        [m.merged EXCEPT
           !.FileName = FirstNonEmpty(@, pageResult.FileName),
           !.DocumentType = FirstNonEmpty(@, pageResult.DocumentType),
           !.DocumentDate = FirstNonEmpty(@, pageResult.DocumentDate),
           !.Correspondent = FirstNonEmpty(@, pageResult.Correspondent),
           !.Tags = t[1]],
      summaries |-> AppendNonEmpty(m.summaries, pageResult.Summary),
      transcriptions |-> AppendNonEmpty(m.transcriptions, pageResult.Transcription),
      seenTags |-> t[2]]

\* the same with the locals declared before the document loop, holding
\* what a document before this one left in them
FreshMergeStale ==
  [merged |-> [EmptyAnalysis EXCEPT !.FileName = "B", !.Tags = <<"IRS">>],
   summaries |-> <<"S1">>, transcriptions |-> <<"T1">>, seenTags |-> {"IRS"}]

\* the state of the merge at the start of a document, main.go:156-160
FreshMerge ==
  [merged |-> EmptyAnalysis, summaries |-> <<>>, transcriptions |-> <<>>,
   seenTags |-> {}]

\* main.go:206-207
JoinPages(m) ==
  [m.merged EXCEPT !.Summary = Join(m.summaries, "\n\n"),
                   !.Transcription = Join(m.transcriptions, "\n\n")]

\* main.go:202: the document is abandoned when a page analysis failed
IgnoresAnalyzeErr(analyzeErrFlag) == FALSE

AbandonsDocument(analyzeErrFlag) == analyzeErrFlag

----------------------------------------------------------------------------
(* The update, cmd/batch/main.go:219-248, and its JSON form.               *)

\* update := paperless.DocumentUpdate{CustomFields: {marker, model}}
BaseUpdateNoModel(version, model) ==
  [Title |-> <<>>, Content |-> <<>>, DocumentType |-> <<>>,
   Correspondent |-> <<>>, Tags |-> <<>>, Created |-> <<>>,
   CustomFields |-> << [Field |-> fieldName, Value |-> version] >>]

BaseUpdateNoMarker(version, model) ==
  [Title |-> <<>>, Content |-> <<>>, DocumentType |-> <<>>,
   Correspondent |-> <<>>, Tags |-> <<>>, Created |-> <<>>,
   CustomFields |-> << [Field |-> modelFieldName, Value |-> model] >>]

BaseUpdate(version, model) ==
  [Title |-> <<>>, Content |-> <<>>, DocumentType |-> <<>>,
   Correspondent |-> <<>>, Tags |-> <<>>, Created |-> <<>>,
   CustomFields |-> << [Field |-> fieldName, Value |-> version],
                       [Field |-> modelFieldName, Value |-> model] >>]

\* the same with every updateFields[...] test taken as true
LocalFieldsUnmasked(u, mask, mg, docTypes) ==
  [u EXCEPT
     !.Title = <<mg.FileName>>,
     !.CustomFields = Append(@, [Field |-> summaryFieldName, Value |-> mg.Summary]),
     !.Content = IF mg.Transcription # "" THEN <<mg.Transcription>> ELSE @,
     !.DocumentType =
        IF mg.DocumentType \in DOMAIN docTypes
        THEN <<docTypes[mg.DocumentType]>> ELSE @,
     !.Created = IF mg.DocumentDate # "" THEN <<mg.DocumentDate>> ELSE @]

\* the same with dtID := docTypeIDByName[merged.DocumentType] used
\* whether or not the name is in the map (0 when it is not)
LocalFieldsZeroType(u, mask, mg, docTypes) ==
  [u EXCEPT
     !.Title = IF "title" \in mask THEN <<mg.FileName>> ELSE @,
     !.CustomFields =
        IF "summary" \in mask
        THEN Append(@, [Field |-> summaryFieldName, Value |-> mg.Summary])
        ELSE @,
     !.Content =
        IF "content" \in mask /\ mg.Transcription # ""
        THEN <<mg.Transcription>> ELSE @,
     !.DocumentType =
        IF "document_type" \in mask
        THEN IF mg.DocumentType \in DOMAIN docTypes
             THEN <<docTypes[mg.DocumentType]>> ELSE <<0>>
        ELSE @,
     !.Created =
        IF "document_date" \in mask /\ mg.DocumentDate # ""
        THEN <<mg.DocumentDate>> ELSE @]

\* main.go:226-248: the fields that need no remote call
LocalFields(u, mask, mg, docTypes) ==
  [u EXCEPT
     !.Title = IF "title" \in mask THEN <<mg.FileName>> ELSE @,
     !.CustomFields =
        IF "summary" \in mask
        THEN Append(@, [Field |-> summaryFieldName, Value |-> mg.Summary])
        ELSE @,
     !.Content =
        IF "content" \in mask /\ mg.Transcription # ""
        THEN <<mg.Transcription>> ELSE @,
     !.DocumentType =
        IF "document_type" \in mask /\ mg.DocumentType \in DOMAIN docTypes
        THEN <<docTypes[mg.DocumentType]>> ELSE @,
     !.Created =
        IF "document_date" \in mask /\ mg.DocumentDate # ""
        THEN <<mg.DocumentDate>> ELSE @]

\* json.Marshal(update) under the omitempty tags of DocumentUpdate,
\* client.go:381-390: a nil pointer and an empty slice are left out, a
\* pointer to "" is not.  The result maps each key present to its value.
OptKey(key, ptr) == IF ptr = <<>> THEN <<>> ELSE key :> ptr[1]

SliceKey(key, slice) == IF Len(slice) = 0 THEN <<>> ELSE key :> slice

Marshal(u) ==
  OptKey("title", u.Title) @@ OptKey("content", u.Content)
    @@ OptKey("document_type", u.DocumentType)
    @@ OptKey("correspondent", u.Correspondent)
    @@ SliceKey("tags", u.Tags) @@ OptKey("created", u.Created)
    @@ SliceKey("custom_fields", u.CustomFields)

\* the value the payload's custom_fields array gives the named field
HasCustom(payload, name) ==
  /\ "custom_fields" \in DOMAIN payload
  /\ \E k \in DOMAIN payload["custom_fields"] :
       payload["custom_fields"][k].Field = name

CustomValue(payload, name) ==
  LET cfs == payload["custom_fields"]
      k == CHOOSE x \in DOMAIN cfs :
             /\ cfs[x].Field = name
             /\ \A y \in DOMAIN cfs : cfs[y].Field = name => y <= x
  IN cfs[k].Value

\* PATCH /api/documents/{id}/: the keys present are written, the rest of
\* the document is left as it is
ApplyPatch(doc, payload) ==
  [doc EXCEPT
     !.title = IF "title" \in DOMAIN payload THEN payload["title"] ELSE @,
     !.content = IF "content" \in DOMAIN payload THEN payload["content"] ELSE @,
     !.document_type =
        IF "document_type" \in DOMAIN payload THEN payload["document_type"] ELSE @,
     !.correspondent =
        IF "correspondent" \in DOMAIN payload THEN payload["correspondent"] ELSE @,
     !.tags = IF "tags" \in DOMAIN payload THEN payload["tags"] ELSE @,
     !.created = IF "created" \in DOMAIN payload THEN payload["created"] ELSE @,
     !.marker =
        IF HasCustom(payload, fieldName) THEN CustomValue(payload, fieldName) ELSE @,
     !.model =
        IF HasCustom(payload, modelFieldName)
        THEN CustomValue(payload, modelFieldName) ELSE @,
     !.summary =
        IF HasCustom(payload, summaryFieldName)
        THEN CustomValue(payload, summaryFieldName) ELSE @]

----------------------------------------------------------------------------
(* UPDATE_FIELDS, cmd/batch/main.go:43-62.  The value of the environment   *)
(* variable is a sequence of characters; a run of characters that are      *)
(* neither a comma nor white space may be written as one element           *)
(* (<<"title", ",", " ", "tags">> is "title, tags").                       *)

\* unicode.IsSpace, of which the model has the space and the tab
IsSpace(c) == c \in {" ", "\t"}

\* strings.Split(s, sep) taken as strings.SplitN(s, sep, 2)
SplitFirst(s, sep) ==
  IF \A k \in DOMAIN s : s[k] # sep THEN <<s>>
  ELSE LET k == CHOOSE x \in DOMAIN s :
                  s[x] = sep /\ \A y \in DOMAIN s : y < x => s[y] # sep
       IN <<SubSeq(s, 1, k - 1), SubSeq(s, k + 1, Len(s))>>

\* strings.Split(s, sep), sep one character
RECURSIVE Split(_, _)
Split(s, sep) ==
  IF \A k \in DOMAIN s : s[k] # sep THEN <<s>>
  ELSE LET k == CHOOSE x \in DOMAIN s :
                  s[x] = sep /\ \A y \in DOMAIN s : y < x => s[y] # sep
       IN <<SubSeq(s, 1, k - 1)>> \o Split(SubSeq(s, k + 1, Len(s)), sep)

RECURSIVE TrimLeft(_)
TrimLeft(s) ==
  IF s # <<>> /\ IsSpace(Head(s)) THEN TrimLeft(Tail(s)) ELSE s

RECURSIVE TrimRight(_)
TrimRight(s) ==
  IF s # <<>> /\ IsSpace(s[Len(s)]) THEN TrimRight(SubSeq(s, 1, Len(s) - 1))
  ELSE s

\* strings.TrimSpace(f)
NoTrimSpace(f) == f

TrimSpace(f) == TrimRight(TrimLeft(f))

\* the Go string of a sequence of characters
RECURSIVE Concat(_)
Concat(f) == IF f = <<>> THEN "" ELSE Head(f) \o Concat(Tail(f))

\* main.go:54-59: the keys the loop puts into the fresh map, as sequences
\* of characters
FieldTokens(updateFieldsEnvValue) ==
  {TrimSpace(f) : f \in Range(Split(updateFieldsEnvValue, ","))} \ {<<>>}

\* main.go:43-62: the set of names updateFields maps to true
ParseUpdateFields(updateFieldsEnvValue) ==
  IF updateFieldsEnvValue # <<>>
  THEN {Concat(f) : f \in FieldTokens(updateFieldsEnvValue)}
  ELSE AllFields

----------------------------------------------------------------------------
(* Inputs of the model. *)

\* the values of UPDATE_FIELDS in the runs of Spec
EnvMenu ==
  { <<>>, <<"title", ",", "summary">>, <<"correspondent", ",", " ", "tags">>,
    <<"document_type">> }

\* the document types of the store, ListDocumentTypes
DocTypeStore == "Invoice" :> 1

\* the values UPDATE_FIELDS makes of updateFields in the runs of Spec
Masks == {ParseUpdateFields(e) : e \in EnvMenu}

\* the analyses AnalyzeStructured returns in the runs of Spec
PageMenu ==
  { [Summary |-> "S1", Transcription |-> "T1", FileName |-> "B",
     DocumentType |-> "Invoice", DocumentDate |-> "2024-01-01",
     Correspondent |-> "Acme", Tags |-> <<"Acme", "IRS">>],
    [Summary |-> "", Transcription |-> "", FileName |-> "",
     DocumentType |-> "Memo", DocumentDate |-> "",
     Correspondent |-> "", Tags |-> <<"IRS", "">>] }

\* a document of the store before any run
InitialDocs ==
  {[marker |-> mk, skip |-> sk, title |-> "T0", content |-> "C0",
    document_type |-> 0, correspondent |-> 0, tags |-> <<>>,
    created |-> "D0", model |-> "", summary |-> ""] :
     mk \in {NoMarker, 1}, sk \in BOOLEAN}

\* corrIDByName / tagIDByName as loaded from a listing, main.go:115-118 and
\* 126-129: a later entity of the same name overwrites an earlier one
NameToID(list) ==
  [n \in Range(list) |->
     CHOOSE k \in DOMAIN list :
       list[k] = n /\ \A y \in DOMAIN list : list[y] = n => y <= k]

----------------------------------------------------------------------------
(* The inference response and its decoding, ollama/client.go.              *)

\* the json keys of the string members of DocumentAnalysis
StringKeys ==
  {"summary", "transcription", "file_name", "document_type", "document_date",
   "correspondent"}

\* "required" of the schema sent as the format of the request
RequiredKeys == StringKeys \cup {"tags"}

\* the JSON type the schema gives a key
SchemaType(k) == IF k = "tags" THEN "array" ELSE "string"

\* JSON values: a string, an array of strings, null, a number; each is the
\* triple of its type, its text if it is a string and its elements if it is
\* an array
JSONString(v) == <<"string", v, <<>>>>

JSONArray(l) == <<"array", "", l>>

JSONNull == <<"null", "", <<>>>>

JSONNumber == <<"number", "", <<>>>>

TypeOf(v) == v[1]

StringOf(v) == v[2]

ElementsOf(v) == v[3]

NoMembers == [k \in {} |-> JSONNull]

\* result.Message.Content: the empty string ("empty"), a text that is not
\* JSON ("text"), the JSON texts null ("null") and [] ("array"), or a JSON
\* object with its members
Content(kind) == [kind |-> kind, fields |-> NoMembers]

Object(members) == [kind |-> "object", fields |-> members]

\* no response: the request to the inference server failed, or none was sent
NoResponse == Content("none")

\* the content is an instance of the schema: an object with every required
\* key, each of the type the schema gives it
Conforms(content) ==
  /\ content.kind = "object"
  /\ RequiredKeys \subseteq DOMAIN content.fields
  /\ \A k \in RequiredKeys : TypeOf(content.fields[k]) = SchemaType(k)

\* json.Unmarshal([]byte(content), &analysis) returns an error: the text is
\* not JSON, or a value cannot be stored in the Go value it is decoded into
\* (null is stored in any of them and leaves it unchanged; keys that name no
\* member are skipped)
UnmarshalFails(content) ==
  \/ content.kind \in {"text", "array"}
  \/ /\ content.kind = "object"
     /\ \E k \in DOMAIN content.fields \cap RequiredKeys :
          TypeOf(content.fields[k]) \notin {"null", SchemaType(k)}

\* analysis after json.Unmarshal returned nil: members the content does not
\* give keep their zero value
StringMember(content, k) ==
  IF /\ content.kind = "object"
     /\ k \in DOMAIN content.fields
     /\ TypeOf(content.fields[k]) = "string"
  THEN StringOf(content.fields[k])
  ELSE ""

Unmarshal(content) ==
  [Summary |-> StringMember(content, "summary"),
   Transcription |-> StringMember(content, "transcription"),
   FileName |-> StringMember(content, "file_name"),
   DocumentType |-> StringMember(content, "document_type"),
   DocumentDate |-> StringMember(content, "document_date"),
   Correspondent |-> StringMember(content, "correspondent"),
   Tags |-> IF /\ content.kind = "object"
               /\ "tags" \in DOMAIN content.fields
               /\ TypeOf(content.fields["tags"]) = "array"
            THEN ElementsOf(content.fields["tags"])
            ELSE <<>>]

\* ollama/client.go:219-232, once the chat response has been decoded: the
\* error and the analysis returned (the analysis is nil with an error)
AnalyzeStructured(content) ==
  IF content.kind = "empty" \/ UnmarshalFails(content)
  THEN [err |-> TRUE, analysis |-> EmptyAnalysis]
  ELSE [err |-> FALSE, analysis |-> Unmarshal(content)]

\* the content a model gives that answers with the analysis p
EncodeAnalysis(p) ==
  Object("summary" :> JSONString(p.Summary)
         @@ "transcription" :> JSONString(p.Transcription)
         @@ "file_name" :> JSONString(p.FileName)
         @@ "document_type" :> JSONString(p.DocumentType)
         @@ "document_date" :> JSONString(p.DocumentDate)
         @@ "correspondent" :> JSONString(p.Correspondent)
         @@ "tags" :> JSONArray(p.Tags))

----------------------------------------------------------------------------
(* State. *)

VARIABLES
  store,            \* Paperless-ngx: the documents, by id
  storeCorr,        \* Paperless-ngx: the correspondents' names, by id
  storeTags,        \* Paperless-ngx: the tags' names, by id
  run,              \* number of batch runs started
  pc,               \* position of the running batch process
  processID,        \* const processID of the running build
  paperlessConfigured,  \* PAPERLESS_URL and PAPERLESS_TOKEN are both set
  updateFieldsEnv,  \* os.Getenv("UPDATE_FIELDS"), a sequence of characters
  updateFields,     \* the set of names mapped to true in updateFields
  docTypeIDByName, corrIDByName, tagIDByName,
  docs,             \* result of ListUnprocessedDocuments
  idx,              \* number of iterations of the document loop completed
  images,           \* len(images) of the current document
  i,                \* number of pages of the current document analyzed
  merged, summaries, transcriptions, seenTags, analyzeErr,
  update,           \* the DocumentUpdate under construction
  tagIDs,           \* the tag ids resolved for the current document
  j,                \* number of merged.Tags resolved
  pageLog,          \* history: the page results of the current document
  response,         \* history: the content of the last inference response
  outcome,          \* history: how each document ended in this run
  prevOutcome,      \* history: outcome of the run before this one
  prevVersion,      \* history: processID of the run before this one (0: none)
  prevCompleted,    \* history: the run before this one reached the loop's end
  updatedAt,        \* history: the processIDs of the runs that Updated the document
  nullDocs, ltDocs, skipDocs,  \* SpecList: the three listings' answers
  result,           \* SpecList: the value ListUnprocessedDocuments returns
  serverPages,      \* SpecPages: the page the store answers each URL with
  reqURL, allDocs,  \* SpecPages: reqURL and all, the locals of listDocuments
  requests,         \* SpecPages, history: the URLs requested
  listed,           \* SpecPages: what listDocuments returned
  peerTagIDByName   \* SpecPeer: tagIDByName of a second batch process

storeVars == <<store, storeCorr, storeTags>>
runVars == <<run, processID, paperlessConfigured, updateFieldsEnv, updateFields,
             docTypeIDByName, prevOutcome, prevVersion, prevCompleted>>
cacheVars == <<corrIDByName, tagIDByName>>
pageVars == <<images, i, merged, summaries, transcriptions, seenTags,
              analyzeErr, pageLog, response>>
resolveVars == <<update, tagIDs, j>>
pagingVars == <<serverPages, reqURL, allDocs, requests, listed>>
\* the variables that only the side specifications change
listVars == <<nullDocs, ltDocs, skipDocs, result, pagingVars, peerTagIDByName>>

vars == <<store, storeCorr, storeTags, run, pc, processID, updateFieldsEnv,
          updateFields,
          docTypeIDByName, corrIDByName, tagIDByName, docs, idx, images, i,
          merged, summaries, transcriptions, seenTags, analyzeErr, update,
          tagIDs, j, pageLog, outcome, prevOutcome, prevVersion,
          prevCompleted, updatedAt, nullDocs, ltDocs, skipDocs, result,
          paperlessConfigured, response, serverPages, reqURL, allDocs, requests,
          listed, peerTagIDByName>>

\* the document of the current loop iteration
doc == docs[idx + 1]

MergeState ==
  [merged |-> merged, summaries |-> summaries,
   transcriptions |-> transcriptions, seenTags |-> seenTags]

\* the locals of one loop iteration, outside an iteration
NoDocument ==
  /\ images = 0 /\ i = 0
  /\ merged = EmptyAnalysis /\ summaries = <<>> /\ transcriptions = <<>>
  /\ seenTags = {} /\ analyzeErr = FALSE /\ pageLog = <<>>
  /\ response = NoResponse
  /\ update = BaseUpdate(0, "") /\ tagIDs = <<>> /\ j = 0

\* no call of listDocuments
NoPaging ==
  /\ serverPages = <<>> /\ reqURL = "" /\ allDocs = <<>> /\ requests = <<>>
  /\ listed = [docs |-> <<>>, err |-> FALSE]

NoList ==
  /\ nullDocs = <<>> /\ ltDocs = <<>> /\ skipDocs = <<>> /\ result = <<>>
  /\ NoPaging /\ peerTagIDByName = <<>>

Init ==
  /\ store \in [Docs -> InitialDocs]
  /\ storeCorr = <<>>
  /\ storeTags = <<"Acme">>
  /\ run = 0 /\ pc = "idle" /\ processID = 0
  /\ paperlessConfigured \in BOOLEAN
  /\ updateFieldsEnv \in EnvMenu /\ updateFields = {}
  /\ docTypeIDByName = <<>> /\ corrIDByName = <<>> /\ tagIDByName = <<>>
  /\ docs = <<>> /\ idx = 0
  /\ NoDocument
  /\ outcome = [d \in Docs |-> "none"]
  /\ prevOutcome = [d \in Docs |-> "none"]
  /\ prevVersion = 0 /\ prevCompleted = FALSE
  /\ updatedAt = [d \in Docs |-> {}]
  /\ NoList

----------------------------------------------------------------------------
(* The batch run, cmd/batch/main.go:18-283. *)

\* the same, the loop staying on the document
FinishStay(how) ==
  /\ outcome' = [outcome EXCEPT ![doc] = how]
  /\ idx' = idx
  /\ pc' = "loop"
  /\ images' = 0 /\ i' = 0
  /\ merged' = EmptyAnalysis /\ summaries' = <<>> /\ transcriptions' = <<>>
  /\ seenTags' = {} /\ analyzeErr' = FALSE /\ pageLog' = <<>>
  /\ response' = NoResponse
  /\ update' = BaseUpdate(0, "") /\ tagIDs' = <<>> /\ j' = 0

\* the current iteration ends (continue, or the end of the loop body)
\* with the document in state how
Finish(how) ==
  /\ outcome' = [outcome EXCEPT ![doc] = how]
  /\ idx' = idx + 1
  /\ pc' = "loop"
  /\ images' = 0 /\ i' = 0
  /\ merged' = EmptyAnalysis /\ summaries' = <<>> /\ transcriptions' = <<>>
  /\ seenTags' = {} /\ analyzeErr' = FALSE /\ pageLog' = <<>>
  /\ response' = NoResponse
  /\ update' = BaseUpdate(0, "") /\ tagIDs' = <<>> /\ j' = 0

\* main.go:19-130: the process starts, checks PAPERLESS_URL and
\* PAPERLESS_TOKEN, ensures the custom fields and loads the document types,
\* correspondents and tags; each of these steps may end the process
\* (log.Fatal).  A new process is started only after the one before it
\* ended; UPDATE_FIELDS keeps its value from one run to the next.
StartRun ==
  /\ pc \in {"idle", "done", "fatal"}
  /\ run < MaxRuns
  /\ run' = run + 1
  /\ processID' \in Versions
  /\ prevOutcome' = outcome
  /\ prevVersion' = processID
  /\ prevCompleted' = (pc = "done")
  /\ outcome' = [d \in Docs |-> "none"]
  /\ docs' = <<>> /\ idx' = 0
  /\ IF ~paperlessConfigured
     THEN \* main.go:36-38
          /\ pc' = "fatal"
          /\ updateFields' = {}
          /\ UNCHANGED <<docTypeIDByName, corrIDByName, tagIDByName>>
     ELSE /\ updateFields' = ParseUpdateFields(updateFieldsEnv)
          /\ \/ \* main.go:71-130: one of the requests failed
                /\ pc' = "fatal"
                /\ UNCHANGED <<docTypeIDByName, corrIDByName, tagIDByName>>
             \/ /\ pc' = "list"
                /\ docTypeIDByName' = DocTypeStore
                /\ corrIDByName' = NameToID(storeCorr)
                /\ tagIDByName' = NameToID(storeTags)
  /\ UNCHANGED <<storeVars, paperlessConfigured, updateFieldsEnv, pageVars,
                 resolveVars, updatedAt, listVars>>

\* main.go:132-137 with client.go:442-481
ListUnprocessed ==
  /\ pc = "list"
  /\ \/ pc' = "fatal" /\ docs' = <<>>
     \/ /\ pc' = "loop"
        /\ \E nullAns \in ListAnswers(QueryExistsFalse(store)),
              ltAns \in ListAnswers(QueryLt(store, processID)),
              skipAns \in ListAnswers(QueryExactTrue(store)) :
             docs' = UnprocessedDocuments(nullAns, ltAns, skipAns)
  /\ idx' = 0
  /\ UNCHANGED <<storeVars, runVars, cacheVars, pageVars, resolveVars,
                 outcome, updatedAt, listVars>>

\* main.go:139 when the range is exhausted, and the return of main: the
\* process ends and its memory (docs, the name-to-id maps) is gone
EndRun ==
  /\ pc = "loop"
  /\ idx = Len(docs)
  /\ pc' = "done"
  /\ docs' = <<>> /\ idx' = 0
  /\ corrIDByName' = <<>> /\ tagIDByName' = <<>>
  /\ UNCHANGED <<storeVars, runVars, pageVars, resolveVars, outcome,
                 updatedAt, listVars>>

\* the same with log.Fatalf in place of log.Printf and continue
DownloadFatal ==
  /\ pc = "loop"
  /\ idx < Len(docs)
  /\ pc' \in {"fatal", "convert"}
  /\ UNCHANGED <<idx, outcome, pageVars, resolveVars>>
  /\ UNCHANGED <<storeVars, runVars, cacheVars, docs, updatedAt, listVars>>

\* main.go:142-146
Download ==
  /\ pc = "loop"
  /\ idx < Len(docs)
  /\ \/ Finish("SkippedError")
     \/ /\ pc' = "convert"
        /\ UNCHANGED <<idx, outcome, pageVars, resolveVars>>
  /\ UNCHANGED <<storeVars, runVars, cacheVars, docs, updatedAt, listVars>>

\* main.go:148-160
Convert ==
  /\ pc = "convert"
  /\ \/ Finish("SkippedError")
     \/ /\ pc' = "analyze"
        /\ images' \in 0..MaxPages
        /\ i' = 0
        /\ merged' = FreshMerge.merged
        /\ summaries' = FreshMerge.summaries
        /\ transcriptions' = FreshMerge.transcriptions
        /\ seenTags' = FreshMerge.seenTags
        /\ analyzeErr' = FALSE
        /\ pageLog' = <<>>
        /\ response' = NoResponse
        /\ UNCHANGED <<idx, outcome, resolveVars>>
  /\ UNCHANGED <<storeVars, runVars, cacheVars, docs, updatedAt, listVars>>

\* the same with continue in place of analyzeErr = true and break
AnalyzeWithContinue(Responses) ==
  /\ pc = "analyze"
  /\ i < images
  /\ \/ /\ i' = i + 1
        /\ response' = NoResponse
        /\ UNCHANGED <<analyzeErr, merged, summaries, transcriptions, seenTags,
                       pageLog>>
     \/ \E content \in Responses :
          LET r == AnalyzeStructured(content)
              m == MergePage(MergeState, r.analysis)
          IN /\ response' = content
             /\ i' = i + 1
             /\ UNCHANGED analyzeErr
             /\ IF r.err
                THEN UNCHANGED <<merged, summaries, transcriptions, seenTags,
                                 pageLog>>
                ELSE /\ merged' = m.merged
                     /\ summaries' = m.summaries
                     /\ transcriptions' = m.transcriptions
                     /\ seenTags' = m.seenTags
                     /\ pageLog' = Append(pageLog, r.analysis)
  /\ UNCHANGED <<storeVars, runVars, cacheVars, pc, docs, idx, images,
                 resolveVars, outcome, updatedAt, listVars>>

\* main.go:162-200, one iteration of the page loop: the request to the
\* inference server fails (ollama/client.go:185-217), or the server answers
\* with a content of the set Responses (ollama/client.go:219-232)
AnalyzeWith(Responses) ==
  /\ pc = "analyze"
  /\ ~analyzeErr
  /\ i < images
  /\ \/ /\ analyzeErr' = TRUE
        /\ response' = NoResponse
        /\ UNCHANGED <<i, merged, summaries, transcriptions, seenTags, pageLog>>
     \/ \E content \in Responses :
          LET r == AnalyzeStructured(content)
              m == MergePage(MergeState, r.analysis)
          IN /\ response' = content
             /\ IF r.err
                THEN /\ analyzeErr' = TRUE
                     /\ UNCHANGED <<i, merged, summaries, transcriptions,
                                    seenTags, pageLog>>
                ELSE /\ merged' = m.merged
                     /\ summaries' = m.summaries
                     /\ transcriptions' = m.transcriptions
                     /\ seenTags' = m.seenTags
                     /\ i' = i + 1
                     /\ pageLog' = Append(pageLog, r.analysis)
                     /\ UNCHANGED analyzeErr
  /\ UNCHANGED <<storeVars, runVars, cacheVars, pc, docs, idx, images,
                 resolveVars, outcome, updatedAt, listVars>>

\* the contents the inference server answers with in the runs of Spec
PageResponses == {EncodeAnalysis(p) : p \in PageMenu}

AnalyzePage == AnalyzeWith(PageResponses)

\* the same with a document without page images abandoned like one with a
\* failed page
EndPagesSkipEmpty ==
  /\ pc = "analyze"
  /\ analyzeErr \/ i = images
  /\ IF AbandonsDocument(analyzeErr) \/ images = 0
     THEN /\ Finish("SkippedError")
     ELSE /\ merged' = JoinPages(MergeState)
          /\ update' = LocalFields(BaseUpdate(processID, ollamaModel),
                                   updateFields, merged', docTypeIDByName)
          /\ pc' = "corr"
          /\ UNCHANGED <<idx, outcome, images, i, summaries, transcriptions,
                         seenTags, analyzeErr, pageLog, response, tagIDs, j>>
  /\ UNCHANGED <<storeVars, runVars, cacheVars, docs, updatedAt, listVars>>

\* main.go:202-248, after the page loop
EndPages ==
  /\ pc = "analyze"
  /\ analyzeErr \/ i = images
  /\ IF AbandonsDocument(analyzeErr)
     THEN /\ Finish("SkippedError")
     ELSE /\ merged' = JoinPages(MergeState)
          /\ update' = LocalFields(BaseUpdate(processID, ollamaModel),
                                   updateFields, merged', docTypeIDByName)
          /\ pc' = "corr"
          /\ UNCHANGED <<idx, outcome, images, i, summaries, transcriptions,
                         seenTags, analyzeErr, pageLog, response, tagIDs, j>>
  /\ UNCHANGED <<storeVars, runVars, cacheVars, docs, updatedAt, listVars>>

\* the same with the lookup never finding the name
CacheNeverHit(name, existing) == FALSE

\* client.go:270 and 364: if id, ok := existing[name]; ok
CacheHit(name, existing) == name \in DOMAIN existing

\* main.go:250-258 with EnsureCorrespondent, client.go:268-279
ResolveCorrespondent ==
  /\ pc = "corr"
  /\ IF "correspondent" \in updateFields /\ merged.Correspondent # ""
     THEN LET name == merged.Correspondent
          IN IF CacheHit(name, corrIDByName)
             THEN /\ update' = [update EXCEPT !.Correspondent = <<corrIDByName[name]>>]
                  /\ UNCHANGED <<storeCorr, corrIDByName>>
             ELSE \/ /\ storeCorr' = Append(storeCorr, name)
                     /\ corrIDByName' = (name :> Len(storeCorr')) @@ corrIDByName
                     /\ update' = [update EXCEPT !.Correspondent = <<Len(storeCorr')>>]
                  \/ UNCHANGED <<storeCorr, corrIDByName, update>>
     ELSE UNCHANGED <<storeCorr, corrIDByName, update>>
  /\ tagIDs' = <<>>
  /\ j' = 0
  /\ pc' = "tags"
  /\ UNCHANGED <<store, storeTags, runVars, tagIDByName, docs, idx, pageVars,
                 outcome, updatedAt, listVars>>

\* the same with EnsureTag recording a failed create in the map, under the
\* id 0 it returns with the error
ResolveTagCachesFailure ==
  /\ pc = "tags"
  /\ "tags" \in updateFields
  /\ j < Len(merged.Tags)
  /\ LET name == merged.Tags[j + 1]
     IN IF CacheHit(name, tagIDByName)
        THEN /\ tagIDs' = Append(tagIDs, tagIDByName[name])
             /\ UNCHANGED <<storeTags, tagIDByName>>
        ELSE \/ /\ storeTags' = Append(storeTags, name)
                /\ tagIDByName' = (name :> Len(storeTags')) @@ tagIDByName
                /\ tagIDs' = Append(tagIDs, Len(storeTags'))
             \/ /\ tagIDByName' = (name :> 0) @@ tagIDByName
                /\ UNCHANGED <<storeTags, tagIDs>>
  /\ j' = j + 1
  /\ UNCHANGED <<store, storeCorr, runVars, corrIDByName, pc, docs, idx,
                 pageVars, update, outcome, updatedAt, listVars>>

\* the same with EnsureTag taking the id of a tag of that name from the
\* store before it creates one
ResolveTagLookup ==
  /\ pc = "tags"
  /\ "tags" \in updateFields
  /\ j < Len(merged.Tags)
  /\ LET name == merged.Tags[j + 1]
     IN IF CacheHit(name, tagIDByName)
        THEN /\ tagIDs' = Append(tagIDs, tagIDByName[name])
             /\ UNCHANGED <<storeTags, tagIDByName>>
        ELSE IF name \in Range(storeTags)
        THEN /\ tagIDByName' = (name :> NameToID(storeTags)[name]) @@ tagIDByName
             /\ tagIDs' = Append(tagIDs, NameToID(storeTags)[name])
             /\ UNCHANGED storeTags
        ELSE \/ /\ storeTags' = Append(storeTags, name)
                /\ tagIDByName' = (name :> Len(storeTags')) @@ tagIDByName
                /\ tagIDs' = Append(tagIDs, Len(storeTags'))
             \/ UNCHANGED <<storeTags, tagIDByName, tagIDs>>
  /\ j' = j + 1
  /\ UNCHANGED <<store, storeCorr, runVars, corrIDByName, pc, docs, idx,
                 pageVars, update, outcome, updatedAt, listVars>>

\* main.go:262-269, one iteration, with EnsureTag, client.go:362-373
ResolveTag ==
  /\ pc = "tags"
  /\ "tags" \in updateFields
  /\ j < Len(merged.Tags)
  /\ LET name == merged.Tags[j + 1]
     IN IF CacheHit(name, tagIDByName)
        THEN /\ tagIDs' = Append(tagIDs, tagIDByName[name])
             /\ UNCHANGED <<storeTags, tagIDByName>>
        ELSE \/ /\ storeTags' = Append(storeTags, name)
                /\ tagIDByName' = (name :> Len(storeTags')) @@ tagIDByName
                /\ tagIDs' = Append(tagIDs, Len(storeTags'))
             \/ UNCHANGED <<storeTags, tagIDByName, tagIDs>>
  /\ j' = j + 1
  /\ UNCHANGED <<store, storeCorr, runVars, corrIDByName, pc, docs, idx,
                 pageVars, update, outcome, updatedAt, listVars>>

\* the same, the tags being set only if every one of them was resolved
EndTagsAllOrNothing ==
  /\ pc = "tags"
  /\ "tags" \notin updateFields \/ j = Len(merged.Tags)
  /\ update' = IF "tags" \in updateFields /\ Len(merged.Tags) > 0
                  /\ Len(tagIDs) = Len(merged.Tags)
               THEN [update EXCEPT !.Tags = tagIDs]
               ELSE update
  /\ pc' = "apply"
  /\ UNCHANGED <<storeVars, runVars, cacheVars, docs, idx, pageVars, tagIDs,
                 j, outcome, updatedAt, listVars>>

\* main.go:260 and 270-274
EndTags ==
  /\ pc = "tags"
  /\ "tags" \notin updateFields \/ j = Len(merged.Tags)
  /\ update' = IF "tags" \in updateFields /\ Len(merged.Tags) > 0 /\ Len(tagIDs) > 0
               THEN [update EXCEPT !.Tags = tagIDs]
               ELSE update
  /\ pc' = "apply"
  /\ UNCHANGED <<storeVars, runVars, cacheVars, docs, idx, pageVars, tagIDs,
                 j, outcome, updatedAt, listVars>>

\* the same with log.Fatalf in place of log.Printf and continue
UpdateDocumentFatal ==
  /\ pc = "apply"
  /\ \/ /\ store' = [store EXCEPT ![doc] = ApplyPatch(@, Marshal(update))]
        /\ updatedAt' = [updatedAt EXCEPT ![doc] = @ \cup {processID}]
        /\ Finish("Updated")
     \/ /\ pc' = "fatal"
        /\ UNCHANGED <<store, updatedAt, idx, outcome, pageVars, resolveVars>>
  /\ UNCHANGED <<storeCorr, storeTags, runVars, cacheVars, docs, listVars>>

\* main.go:276-282 with UpdateDocument, client.go:393-415.  The store
\* answers 200 after applying the PATCH, or rejects it; the transport may
\* also fail after the store applied it, and the client then returns an
\* error all the same.
UpdateDocument ==
  /\ pc = "apply"
  /\ \/ /\ store' = [store EXCEPT ![doc] = ApplyPatch(@, Marshal(update))]
        /\ updatedAt' = [updatedAt EXCEPT ![doc] = @ \cup {processID}]
        /\ Finish("Updated")
     \/ /\ UNCHANGED <<store, updatedAt>>
        /\ Finish("SkippedError")
     \/ /\ store' = [store EXCEPT ![doc] = ApplyPatch(@, Marshal(update))]
        /\ UNCHANGED updatedAt
        /\ Finish("SkippedError")
  /\ UNCHANGED <<storeCorr, storeTags, runVars, cacheVars, docs, listVars>>

Next ==
  \/ StartRun
  \/ ListUnprocessed
  \/ EndRun
  \/ Download
  \/ Convert
  \/ AnalyzePage
  \/ EndPages
  \/ ResolveCorrespondent
  \/ ResolveTag
  \/ EndTags
  \/ UpdateDocument

Spec == Init /\ [][Next]_vars

----------------------------------------------------------------------------
(* SpecMerge: the page loop of one document, with AnalyzeStructured        *)
(* answering from a larger set of analyses.                                *)

\* pages that differ in two singular fields, in the free text, or in the tags
RichPages ==
  {[EmptyAnalysis EXCEPT !.FileName = f, !.DocumentType = t] :
     f \in {"", "A", "B"}, t \in {"", "A", "C"}}
  \cup
  {[EmptyAnalysis EXCEPT !.DocumentDate = d, !.Correspondent = c] :
     d \in {"", "2024-01-01", "2024-02-02"}, c \in {"", "Acme", "IRS"}}
  \cup
  {[EmptyAnalysis EXCEPT !.Summary = a, !.Transcription = b] :
     a \in {"", "S1", "S2"}, b \in {"", "T1", "T2"}}
  \cup
  {[EmptyAnalysis EXCEPT !.Tags = g] :
     g \in {<<"Acme", "IRS">>, <<"IRS", "John Smith">>, <<"", "Acme">>,
            <<"IRS", "IRS">>}}

InitMerge ==
  /\ store \in [Docs -> {[marker |-> NoMarker, skip |-> FALSE, title |-> "T0",
                          content |-> "C0", document_type |-> 0,
                          correspondent |-> 0, tags |-> <<>>, created |-> "D0",
                          model |-> "", summary |-> ""]}]
  /\ storeCorr = <<>>
  /\ storeTags = <<"Acme">>
  /\ run = 1 /\ pc = "analyze" /\ processID = 1
  /\ paperlessConfigured = TRUE
  /\ updateFieldsEnv = <<>> /\ updateFields = AllFields
  /\ docTypeIDByName = DocTypeStore
  /\ corrIDByName = <<>> /\ tagIDByName = NameToID(storeTags)
  /\ docs = <<1>> /\ idx = 0
  /\ images \in 0..MaxMergePages /\ i = 0
  /\ merged = FreshMerge.merged /\ summaries = FreshMerge.summaries
  /\ transcriptions = FreshMerge.transcriptions
  /\ seenTags = FreshMerge.seenTags
  /\ analyzeErr = FALSE /\ pageLog = <<>> /\ response = NoResponse
  /\ update = BaseUpdate(0, "") /\ tagIDs = <<>> /\ j = 0
  /\ outcome = [d \in Docs |-> "none"]
  /\ prevOutcome = [d \in Docs |-> "none"]
  /\ prevVersion = 0 /\ prevCompleted = FALSE
  /\ updatedAt = [d \in Docs |-> {}]
  /\ NoList

\* the contents the inference server answers with in SpecMerge
RichResponses == {EncodeAnalysis(p) : p \in RichPages}

AnalyzeRichPage == AnalyzeWith(RichResponses)

NextMerge == AnalyzeRichPage \/ EndPages

SpecMerge == InitMerge /\ [][NextMerge]_vars

----------------------------------------------------------------------------
(* SpecList: ListUnprocessedDocuments on arbitrary answers of the three    *)
(* listings (the store may change between two listings, so a document may  *)
(* be in the answer of more than one of them).                             *)

InitList ==
  /\ store \in [Docs -> {[marker |-> NoMarker, skip |-> FALSE, title |-> "T0",
                          content |-> "C0", document_type |-> 0,
                          correspondent |-> 0, tags |-> <<>>, created |-> "D0",
                          model |-> "", summary |-> ""]}]
  /\ storeCorr = <<>>
  /\ storeTags = <<"Acme">>
  /\ run = 1 /\ pc = "list" /\ processID = 1
  /\ paperlessConfigured = TRUE
  /\ updateFieldsEnv = <<>> /\ updateFields = AllFields
  /\ docTypeIDByName = DocTypeStore
  /\ corrIDByName = <<>> /\ tagIDByName = NameToID(storeTags)
  /\ docs = <<>> /\ idx = 0
  /\ NoDocument
  /\ outcome = [d \in Docs |-> "none"]
  /\ prevOutcome = [d \in Docs |-> "none"]
  /\ prevVersion = 0 /\ prevCompleted = FALSE
  /\ updatedAt = [d \in Docs |-> {}]
  /\ nullDocs \in SeqsUpTo(Docs, MaxListLen)
  /\ ltDocs \in SeqsUpTo(Docs, MaxListLen)
  /\ skipDocs \in SeqsUpTo(Docs, MaxListLen)
  /\ result = <<>>
  /\ NoPaging /\ peerTagIDByName = <<>>

\* client.go:457-480 once the three listings have answered
ReturnUnprocessed ==
  /\ pc = "list"
  /\ result' = UnprocessedDocuments(nullDocs, ltDocs, skipDocs)
  /\ pc' = "listed"
  /\ UNCHANGED <<storeVars, runVars, cacheVars, docs, idx, pageVars,
                 resolveVars, outcome, updatedAt, nullDocs, ltDocs, skipDocs,
                 pagingVars, peerTagIDByName>>

NextList == ReturnUnprocessed

SpecList == InitList /\ [][NextList]_vars

----------------------------------------------------------------------------
(* SpecResolve: one document from the end of its page loop to its update,  *)
(* its only page having named any correspondent and any tags.              *)

\* the names the analysis gives in SpecResolve
ResolveNames == {"Acme", "IRS", "John Smith"}

\* the analyses of the only page in SpecResolve
ResolvePages ==
  {[EmptyAnalysis EXCEPT !.Correspondent = c, !.Tags = t] :
     c \in ResolveNames \cup {""},
     t \in {q \in SeqsUpTo(ResolveNames, MaxResolveTags) : NoDup(q)}}

InitResolve ==
  /\ store \in [Docs -> {[marker |-> NoMarker, skip |-> FALSE, title |-> "T0",
                          content |-> "C0", document_type |-> 0,
                          correspondent |-> 0, tags |-> <<>>, created |-> "D0",
                          model |-> "", summary |-> ""]}]
  /\ storeCorr = <<>>
  /\ storeTags = <<"Acme">>
  /\ run = 1 /\ pc = "corr" /\ processID = 1
  /\ paperlessConfigured = TRUE
  /\ updateFieldsEnv \in {<<>>, <<"tags">>}
  /\ updateFields = ParseUpdateFields(updateFieldsEnv)
  /\ docTypeIDByName = DocTypeStore
  /\ corrIDByName = NameToID(storeCorr) /\ tagIDByName = NameToID(storeTags)
  /\ docs = <<1>> /\ idx = 0
  /\ images = 1 /\ i = 1
  /\ \E pageResult \in ResolvePages :
       /\ pageLog = <<pageResult>>
       /\ response = EncodeAnalysis(pageResult)
       /\ merged = JoinPages(MergePage(FreshMerge, pageResult))
       /\ seenTags = MergePage(FreshMerge, pageResult).seenTags
  /\ summaries = <<>> /\ transcriptions = <<>>
  /\ analyzeErr = FALSE
  /\ update = LocalFields(BaseUpdate(processID, ollamaModel), updateFields,
                          merged, docTypeIDByName)
  /\ tagIDs = <<>> /\ j = 0
  /\ outcome = [d \in Docs |-> "none"]
  /\ prevOutcome = [d \in Docs |-> "none"]
  /\ prevVersion = 0 /\ prevCompleted = FALSE
  /\ updatedAt = [d \in Docs |-> {}]
  /\ NoList

NextResolve ==
  \/ ResolveCorrespondent
  \/ ResolveTag
  \/ EndTags
  \/ UpdateDocument

SpecResolve == InitResolve /\ [][NextResolve]_vars

----------------------------------------------------------------------------
(* SpecMask: the start of the process on any value of UPDATE_FIELDS of at  *)
(* most MaxEnvLen characters.                                              *)

\* the characters of UPDATE_FIELDS in SpecMask
EnvChars == {"title", "tags", ",", " "}

InitMask ==
  /\ store \in [Docs -> {[marker |-> NoMarker, skip |-> FALSE, title |-> "T0",
                          content |-> "C0", document_type |-> 0,
                          correspondent |-> 0, tags |-> <<>>, created |-> "D0",
                          model |-> "", summary |-> ""]}]
  /\ storeCorr = <<>>
  /\ storeTags = <<"Acme">>
  /\ run = 0 /\ pc = "idle" /\ processID = 0
  /\ paperlessConfigured = TRUE
  /\ updateFieldsEnv \in SeqsUpTo(EnvChars, MaxEnvLen) /\ updateFields = {}
  /\ docTypeIDByName = <<>> /\ corrIDByName = <<>> /\ tagIDByName = <<>>
  /\ docs = <<>> /\ idx = 0
  /\ NoDocument
  /\ outcome = [d \in Docs |-> "none"]
  /\ prevOutcome = [d \in Docs |-> "none"]
  /\ prevVersion = 0 /\ prevCompleted = FALSE
  /\ updatedAt = [d \in Docs |-> {}]
  /\ NoList

NextMask == StartRun

SpecMask == InitMask /\ [][NextMask]_vars

----------------------------------------------------------------------------
(* SpecAnalyze: the page loop of one document with the inference server    *)
(* answering any of the contents of AnalyzeResponses.                      *)

\* the members of a content that has all the keys of the schema
FullMembers ==
  EncodeAnalysis([Summary |-> "S1", Transcription |-> "T1", FileName |-> "B",
                  DocumentType |-> "Invoice", DocumentDate |-> "2024-01-01",
                  Correspondent |-> "Acme", Tags |-> <<"IRS">>]).fields

\* the members without the key k
Without(k) == [x \in RequiredKeys \ {k} |-> FullMembers[x]]

\* the members with the value v under the key k
With(k, v) ==
  [x \in RequiredKeys \cup {k} |-> IF x = k THEN v ELSE FullMembers[x]]

AnalyzeResponses ==
  {Content("empty"), Content("text"), Content("null"), Content("array"),
   Object(NoMembers), Object(FullMembers),
   Object(Without("tags")), Object(Without("summary")),
   Object(With("tags", JSONNull)), Object(With("file_name", JSONNull)),
   Object(With("tags", JSONString("IRS"))),
   Object(With("summary", JSONNumber)),
   Object(With("note", JSONNumber))}

AnalyzeResponse == AnalyzeWith(AnalyzeResponses)

NextAnalyze == AnalyzeResponse \/ EndPages

SpecAnalyze == InitMerge /\ [][NextAnalyze]_vars

----------------------------------------------------------------------------
(* SpecFair: runs in which every external call returns, so that a started  *)
(* process always takes its next step.  Nothing requires a process to be   *)
(* started.  Before the first run the store's documents have no marker and *)
(* no llm-skip, and UPDATE_FIELDS is "correspondent, tags".                *)

InitFair ==
  /\ Init
  /\ paperlessConfigured
  /\ updateFieldsEnv = <<"correspondent", ",", " ", "tags">>
  /\ \A d \in Docs : store[d].marker = NoMarker /\ ~store[d].skip

\* the steps of a started process
RunStep ==
  \/ ListUnprocessed
  \/ EndRun
  \/ Download
  \/ Convert
  \/ AnalyzePage
  \/ EndPages
  \/ ResolveCorrespondent
  \/ ResolveTag
  \/ EndTags
  \/ UpdateDocument

SpecFair == InitFair /\ [][Next]_vars /\ WF_vars(RunStep)

----------------------------------------------------------------------------
(* SpecPages: one call of listDocuments against a store that answers each  *)
(* URL with any page.  The pages may form a cycle, so the number of        *)
(* requests of the call is capped at MaxRequests.                          *)

MaxRequests == 3

MaxPageLen == 1

\* c.BaseURL + "/api/documents/?fields=id,title" + extraQuery
FirstURL == "u1"

\* the URLs the store serves
URLs == {FirstURL, "u2"}

\* listResponse: Results and Next, a pointer (<<>> is nil, <<u>> points to u)
ListResponses ==
  { [results |-> r, next |-> n] :
      r \in SeqsUpTo(Docs, MaxPageLen),
      n \in {<<>>, <<"">>} \cup {<<u>> : u \in URLs} }

InitPages ==
  /\ store \in [Docs -> {[marker |-> NoMarker, skip |-> FALSE, title |-> "T0",
                          content |-> "C0", document_type |-> 0,
                          correspondent |-> 0, tags |-> <<>>, created |-> "D0",
                          model |-> "", summary |-> ""]}]
  /\ storeCorr = <<>>
  /\ storeTags = <<"Acme">>
  /\ run = 1 /\ pc = "paging" /\ processID = 1
  /\ paperlessConfigured = TRUE
  /\ updateFieldsEnv = <<>> /\ updateFields = AllFields
  /\ docTypeIDByName = DocTypeStore
  /\ corrIDByName = <<>> /\ tagIDByName = NameToID(storeTags)
  /\ docs = <<>> /\ idx = 0
  /\ NoDocument
  /\ outcome = [d \in Docs |-> "none"]
  /\ prevOutcome = [d \in Docs |-> "none"]
  /\ prevVersion = 0 /\ prevCompleted = FALSE
  /\ updatedAt = [d \in Docs |-> {}]
  /\ nullDocs = <<>> /\ ltDocs = <<>> /\ skipDocs = <<>> /\ result = <<>>
  /\ peerTagIDByName = <<>>
  /\ serverPages \in [URLs -> ListResponses]
  /\ reqURL = FirstURL /\ allDocs = <<>> /\ requests = <<>>
  /\ listed = [docs |-> <<>>, err |-> FALSE]

\* the same with return all, err in place of return nil, err
RequestPagePartial ==
  /\ pc = "paging"
  /\ reqURL # ""
  /\ Len(requests) < MaxRequests
  /\ requests' = Append(requests, reqURL)
  /\ \/ /\ listed' = [docs |-> allDocs, err |-> TRUE]
        /\ pc' = "paged"
        /\ UNCHANGED <<reqURL, allDocs>>
     \/ LET page == serverPages[reqURL]
        IN /\ allDocs' = allDocs \o page.results
           /\ reqURL' = IF page.next # <<>> THEN page.next[1] ELSE ""
           /\ UNCHANGED <<pc, listed>>
  /\ UNCHANGED <<storeVars, runVars, cacheVars, docs, idx, pageVars,
                 resolveVars, outcome, updatedAt, nullDocs, ltDocs, skipDocs,
                 result, serverPages, peerTagIDByName>>

\* client.go:492-523, one iteration of the loop of listDocuments: the
\* request fails (no response, a status other than 200, a body that does
\* not decode) and the function returns nil and the error, or the page is
\* appended to all and reqURL becomes its next cursor
RequestPage ==
  /\ pc = "paging"
  /\ reqURL # ""
  /\ Len(requests) < MaxRequests
  /\ requests' = Append(requests, reqURL)
  /\ \/ /\ listed' = [docs |-> <<>>, err |-> TRUE]
        /\ pc' = "paged"
        /\ UNCHANGED <<reqURL, allDocs>>
     \/ LET page == serverPages[reqURL]
        IN /\ allDocs' = allDocs \o page.results
           /\ reqURL' = IF page.next # <<>> THEN page.next[1] ELSE ""
           /\ UNCHANGED <<pc, listed>>
  /\ UNCHANGED <<storeVars, runVars, cacheVars, docs, idx, pageVars,
                 resolveVars, outcome, updatedAt, nullDocs, ltDocs, skipDocs,
                 result, serverPages, peerTagIDByName>>

\* client.go:492 and 526: the loop ends and the function returns all
ReturnAll ==
  /\ pc = "paging"
  /\ reqURL = ""
  /\ listed' = [docs |-> allDocs, err |-> FALSE]
  /\ pc' = "paged"
  /\ UNCHANGED <<storeVars, runVars, cacheVars, docs, idx, pageVars,
                 resolveVars, outcome, updatedAt, nullDocs, ltDocs, skipDocs,
                 result, serverPages, reqURL, allDocs, requests,
                 peerTagIDByName>>

NextPages == RequestPage \/ ReturnAll

SpecPages == InitPages /\ [][NextPages]_vars

----------------------------------------------------------------------------
(* SpecPeer: the resolution of correspondent and tags of one document, as  *)
(* in SpecResolve, while a second batch process runs against the same      *)
(* store.  The second process loaded its own tagIDByName from the store at *)
(* its start, when the store had the same tags.                            *)

InitPeer ==
  /\ store \in [Docs -> {[marker |-> NoMarker, skip |-> FALSE, title |-> "T0",
                          content |-> "C0", document_type |-> 0,
                          correspondent |-> 0, tags |-> <<>>, created |-> "D0",
                          model |-> "", summary |-> ""]}]
  /\ storeCorr = <<>>
  /\ storeTags = <<"Acme">>
  /\ run = 1 /\ pc = "corr" /\ processID = 1
  /\ paperlessConfigured = TRUE
  /\ updateFieldsEnv = <<>>
  /\ updateFields = ParseUpdateFields(updateFieldsEnv)
  /\ docTypeIDByName = DocTypeStore
  /\ corrIDByName = NameToID(storeCorr) /\ tagIDByName = NameToID(storeTags)
  /\ peerTagIDByName = NameToID(storeTags)
  /\ docs = <<1>> /\ idx = 0
  /\ images = 1 /\ i = 1
  /\ \E pageResult \in ResolvePages :
       /\ pageLog = <<pageResult>>
       /\ response = EncodeAnalysis(pageResult)
       /\ merged = JoinPages(MergePage(FreshMerge, pageResult))
       /\ seenTags = MergePage(FreshMerge, pageResult).seenTags
  /\ summaries = <<>> /\ transcriptions = <<>>
  /\ analyzeErr = FALSE
  /\ update = LocalFields(BaseUpdate(processID, ollamaModel), updateFields,
                          merged, docTypeIDByName)
  /\ tagIDs = <<>> /\ j = 0
  /\ outcome = [d \in Docs |-> "none"]
  /\ prevOutcome = [d \in Docs |-> "none"]
  /\ prevVersion = 0 /\ prevCompleted = FALSE
  /\ updatedAt = [d \in Docs |-> {}]
  /\ nullDocs = <<>> /\ ltDocs = <<>> /\ skipDocs = <<>> /\ result = <<>>
  /\ NoPaging

\* EnsureTag, client.go:362-373, called by the second process for a name
\* its own map does not have, the create succeeding (a call for a name the
\* map has, and a call whose create fails, change nothing)
PeerEnsureTag ==
  /\ pc \in {"corr", "tags", "apply"}
  /\ \E name \in ResolveNames :
       /\ ~CacheHit(name, peerTagIDByName)
       /\ storeTags' = Append(storeTags, name)
       /\ peerTagIDByName' = (name :> Len(storeTags')) @@ peerTagIDByName
  /\ UNCHANGED <<store, storeCorr, runVars, cacheVars, pc, docs, idx,
                 pageVars, resolveVars, outcome, updatedAt, nullDocs, ltDocs,
                 skipDocs, result, pagingVars>>

NextPeer ==
  \/ ResolveCorrespondent
  \/ ResolveTag
  \/ EndTags
  \/ PeerEnsureTag

SpecPeer == InitPeer /\ [][NextPeer]_vars

----------------------------------------------------------------------------
(* Properties. *)

\* the state right after ListUnprocessedDocuments returned to main
Listed == pc = "loop" /\ idx = 0

\* the documents the store holds as unprocessed for version V and not skipped
Eligible(st, V) ==
  {d \in Docs : (st[d].marker = NoMarker \/ st[d].marker < V) /\ ~st[d].skip}

\* C1: when ListUnprocessedDocuments(markerField, V, skipField) returns, a
\* document is in its result if and only if its llm-process-id is absent or
\* strictly less than V and its llm-skip is not true; a document whose
\* llm-skip is true is never in it, whatever its marker and whatever V.
C1_ListUnprocessedExact ==
  Listed =>
    /\ Range(docs) = Eligible(store, processID)
    /\ \A d \in Docs : store[d].skip => d \notin Range(docs)

\* C1 witness: a second run with a bumped version returns a document whose
\* marker is below the version and leaves out a skipped one whose marker is
\* below it too.
C1_Witness ==
  /\ Listed /\ run = 2 /\ prevVersion < processID
  /\ \E d \in Range(docs) : store[d].marker # NoMarker
  /\ \E d \in Docs :
       store[d].skip /\ store[d].marker < processID /\ d \notin Range(docs)

\* C2: the result of ListUnprocessedDocuments holds each document id at most
\* once, also when a document is in the answers of both the marker-absent
\* and the marker-less-than-V listing or several times in one answer.
C2_ResultHasNoDuplicate ==
  pc = "listed" => NoDup(result)

\* C2 witness: a document listed twice by the first listing and again by
\* the second is in the result.
C2_Witness ==
  /\ pc = "listed"
  /\ \E d \in Range(result) :
       /\ d \in Range(ltDocs)
       /\ \E a, b \in DOMAIN nullDocs : a # b /\ nullDocs[a] = d /\ nullDocs[b] = d

\* a second run that lists at the version of the run before it, which ran
\* its loop to the end
SameVersionRerun ==
  Listed /\ run >= 2 /\ prevCompleted /\ prevVersion = processID

\* C3 as claimed: the second of two runs at the same version finds an empty
\* unprocessed set.
C3_SecondRunEmpty ==
  SameVersionRerun => docs = <<>>

\* C3 amended: the second of two runs at the same version lists no document
\* the first run Updated: its result is exactly the set of the documents
\* the first run left in SkippedError whose marker the store did not set,
\* and so is empty when the first run left none in SkippedError.
C3_SecondRunListsOnlyFailed ==
  SameVersionRerun =>
    /\ Range(docs) =
         {d \in Docs : prevOutcome[d] = "SkippedError"
                         /\ store[d].marker # processID}
    /\ (\A d \in Docs : prevOutcome[d] # "SkippedError") => docs = <<>>

\* C3 witness: the second run lists a document the first run failed on and
\* not the one the first run Updated.
C3_Witness ==
  /\ SameVersionRerun
  /\ docs # <<>>
  /\ \E d \in Docs : prevOutcome[d] = "Updated" /\ d \notin Range(docs)

\* C4: a document that an earlier run at version V moved to Updated is not
\* in the result of ListUnprocessedDocuments of a later run at version V,
\* and that run has no loop iteration (download, analysis, update) for it.
C4_UpdatedNotRelisted ==
  \A d \in Docs :
    (processID \in updatedAt[d] /\ outcome[d] # "Updated") =>
      /\ d \notin Range(docs)
      /\ outcome[d] = "none"
      /\ pc \in {"convert", "analyze", "corr", "tags", "apply"} => doc # d

\* C4 witness: a second run at the version of the first is working on one
\* document while the other, Updated by the first run, is not listed.
C4_Witness ==
  /\ run = 2 /\ pc = "apply" /\ prevVersion = processID
  /\ \E d \in Docs :
       /\ processID \in updatedAt[d] /\ prevOutcome[d] = "Updated"
       /\ d \notin Range(docs)

\* the values the pages give field f, in page order
AllValues(pages, f) == [k \in DOMAIN pages |-> pages[k][f]]

\* the non-empty strings of a sequence, in order
RECURSIVE NonEmpty(_)
NonEmpty(s) ==
  IF s = <<>> THEN <<>>
  ELSE IF Head(s) = "" THEN NonEmpty(Tail(s))
  ELSE <<Head(s)>> \o NonEmpty(Tail(s))

\* the value of field f on the lowest-numbered page where it is not empty
FirstValue(pages, f) ==
  IF \A k \in DOMAIN pages : pages[k][f] = "" THEN ""
  ELSE pages[CHOOSE k \in DOMAIN pages :
               /\ pages[k][f] # ""
               /\ \A y \in DOMAIN pages : y < k => pages[y][f] = ""][f]

\* the pages' tag lists, one after the other
RECURSIVE AllTags(_)
AllTags(pages) ==
  IF pages = <<>> THEN <<>> ELSE Head(pages).Tags \o AllTags(Tail(pages))

\* where x first is in s
FirstIndex(s, x) ==
  CHOOSE k \in DOMAIN s : s[k] = x /\ \A y \in DOMAIN s : y < k => s[y] # x

\* ordered by first occurrence in all, without repetition
FirstSeenOrder(tags, all) ==
  /\ NoDup(tags)
  /\ \A a, b \in DOMAIN tags :
       a < b => FirstIndex(all, tags[a]) < FirstIndex(all, tags[b])

SingularFields == {"FileName", "DocumentType", "DocumentDate", "Correspondent"}

\* C5: for each of file_name, document_type, document_date and
\* correspondent, after any number of pages the merged value is the value
\* of the lowest-numbered page whose value is not empty, and is empty only
\* if every page's value is; hence no later page changes a value once set.
C5_FirstNonEmptyWins ==
  \A f \in SingularFields : merged[f] = FirstValue(pageLog, f)

\* C5 witness: pages [{file_name "", type "A"}, {file_name "B", type "C"}]
\* merged to file_name "B" and type "A".
C5_Witness ==
  /\ Len(pageLog) = 2
  /\ pageLog[1].FileName = "" /\ pageLog[1].DocumentType = "A"
  /\ pageLog[2].FileName = "B" /\ pageLog[2].DocumentType = "C"
  /\ merged.FileName = "B" /\ merged.DocumentType = "A"

\* C6 as claimed: the merged summary and the merged transcription are the
\* values of all pages, in page order, joined with "\n\n".
C6_JoinOfAllPages ==
  pc = "corr" =>
    /\ merged.Summary = Join(AllValues(pageLog, "Summary"), "\n\n")
    /\ merged.Transcription = Join(AllValues(pageLog, "Transcription"), "\n\n")

\* C6 amended: the merged summary and the merged transcription are the
\* non-empty values of the pages, in page order, joined with "\n\n"; a page
\* whose value is empty contributes nothing, no separator either.
C6_JoinOfNonEmptyPages ==
  pc = "corr" =>
    /\ merged.Summary = Join(NonEmpty(AllValues(pageLog, "Summary")), "\n\n")
    /\ merged.Transcription =
         Join(NonEmpty(AllValues(pageLog, "Transcription")), "\n\n")

\* C6 witness: page summaries ["S1", "S2"] merged to "S1\n\nS2".
C6_Witness ==
  /\ pc = "corr"
  /\ AllValues(pageLog, "Summary") = <<"S1", "S2">>
  /\ merged.Summary = "S1\n\nS2"

\* C7 as claimed: the merged tag list is the union of all pages' tags,
\* without repetition, in the order of first occurrence.
C7_UnionOfAllTags ==
  /\ Range(merged.Tags) = Range(AllTags(pageLog))
  /\ FirstSeenOrder(merged.Tags, AllTags(pageLog))

\* C7 amended: the merged tag list is the union of all pages' non-empty
\* tags, without repetition, in the order of first occurrence when the
\* pages are read in page order and each page's list left to right; an
\* empty-string tag is dropped.
C7_UnionOfNonEmptyTags ==
  /\ Range(merged.Tags) = Range(AllTags(pageLog)) \ {""}
  /\ FirstSeenOrder(merged.Tags, AllTags(pageLog))

\* C7 witness: tag lists [["Acme","IRS"], ["IRS","John Smith"]] merged to
\* ["Acme","IRS","John Smith"].
C7_Witness ==
  /\ Len(pageLog) = 2
  /\ pageLog[1].Tags = <<"Acme", "IRS">>
  /\ pageLog[2].Tags = <<"IRS", "John Smith">>
  /\ merged.Tags = <<"Acme", "IRS", "John Smith">>

\* the current document is inside its iteration, before the page loop ended
BeforeMerge == pc \in {"loop", "convert", "analyze"} /\ idx < Len(docs)

\* C8: once the analysis of a page has failed, the next step of the run
\* ends the document in SkippedError and moves to the next document with
\* fresh per-document state; no step of the iteration up to there writes to
\* the store, to the name-to-id maps, to the list of documents or to the
\* outcome of any other document, so the documents before and after it are
\* processed from the state they would have had without it; and an update
\* is only ever ready to be sent with every page analyzed and none failed.
C8_PageFailureSkipsDocument ==
  [][ /\ analyzeErr =>
           /\ pc' = "loop" /\ idx' = idx + 1
           /\ outcome' = [outcome EXCEPT ![doc] = "SkippedError"]
           /\ images' = 0 /\ i' = 0 /\ merged' = EmptyAnalysis
           /\ summaries' = <<>> /\ transcriptions' = <<>> /\ seenTags' = {}
           /\ ~analyzeErr'
      /\ BeforeMerge =>
           /\ UNCHANGED <<storeVars, cacheVars, runVars, docs, updatedAt>>
           /\ \A d \in Docs \ {doc} : outcome'[d] = outcome[d]
      /\ pc' = "apply" => ~analyzeErr' /\ i' = images'
    ]_vars

\* C8 witness: page 2 of a two-page document has just failed, in a run
\* whose first document was Updated.
C8_Witness ==
  /\ pc = "analyze" /\ analyzeErr
  /\ images = 2 /\ i = 1
  /\ idx = 1 /\ Len(docs) = 2
  /\ outcome[docs[1]] = "Updated"

\* C9: the payload of every UpdateDocument call has, in custom_fields, the
\* field llm-process-id with the run's processID as value and the field
\* llm-model with the model's name, whatever updateFields and merged are.
C9_MarkerAndModelAlwaysSent ==
  pc = "apply" =>
    LET payload == Marshal(update)
    IN /\ HasCustom(payload, fieldName)
       /\ CustomValue(payload, fieldName) = processID
       /\ HasCustom(payload, modelFieldName)
       /\ CustomValue(payload, modelFieldName) = ollamaModel

\* C9 witness: an update about to be sent that carries nothing but the two
\* fields, the mask being {correspondent, tags} and the merged result empty.
C9_Witness ==
  /\ pc = "apply"
  /\ updateFields = {"correspondent", "tags"}
  /\ merged = EmptyAnalysis
  /\ DOMAIN Marshal(update) = {"custom_fields"}
  /\ Len(update.CustomFields) = 2

\* C10 as claimed: in the payload of every UpdateDocument call, a semantic
\* field whose merged value is the empty string or the empty list is absent.
C10_EmptyFieldsAbsent ==
  pc = "apply" =>
    LET payload == Marshal(update)
    IN /\ merged.FileName = "" => "title" \notin DOMAIN payload
       /\ merged.Summary = "" => ~HasCustom(payload, summaryFieldName)
       /\ merged.Transcription = "" => "content" \notin DOMAIN payload
       /\ merged.DocumentType = "" => "document_type" \notin DOMAIN payload
       /\ merged.DocumentDate = "" => "created" \notin DOMAIN payload
       /\ merged.Correspondent = "" => "correspondent" \notin DOMAIN payload
       /\ merged.Tags = <<>> => "tags" \notin DOMAIN payload

\* the payload key, or the custom field, that carries each semantic field
PayloadHas(payload, f) ==
  CASE f = "title" -> "title" \in DOMAIN payload
    [] f = "summary" -> HasCustom(payload, summaryFieldName)
    [] f = "content" -> "content" \in DOMAIN payload
    [] f = "document_type" -> "document_type" \in DOMAIN payload
    [] f = "document_date" -> "created" \in DOMAIN payload
    [] f = "correspondent" -> "correspondent" \in DOMAIN payload
    [] f = "tags" -> "tags" \in DOMAIN payload

\* the store's value of each semantic field of a document
StoredValue(d, f) ==
  CASE f = "title" -> d.title
    [] f = "summary" -> d.summary
    [] f = "content" -> d.content
    [] f = "document_type" -> d.document_type
    [] f = "document_date" -> d.created
    [] f = "correspondent" -> d.correspondent
    [] f = "tags" -> d.tags

\* the payload about to be sent has no semantic field outside updateFields
PayloadWithinMask ==
  pc = "apply" =>
    \A f \in AllFields : PayloadHas(Marshal(update), f) => f \in updateFields

\* C11: the payload of every UpdateDocument call has a semantic field only
\* if its name is in updateFields; no step of a run changes the store's
\* value of a semantic field outside updateFields, for any document; and a
\* correspondent (a tag) is created only if correspondent (tags) is in
\* updateFields.
C11_OnlyMaskedFieldsTouched ==
  [][ /\ PayloadWithinMask'
      /\ \A d \in Docs : \A f \in AllFields \ updateFields :
           StoredValue(store'[d], f) = StoredValue(store[d], f)
      /\ storeCorr' # storeCorr => "correspondent" \in updateFields
      /\ storeTags' # storeTags => "tags" \in updateFields
    ]_vars

\* C11 witness: with UPDATE_FIELDS=title,summary a document whose analysis
\* gave every field was Updated: title and summary are written, the other
\* five fields have their old values and no correspondent or tag was created.
C11_Witness ==
  /\ updateFields = {"title", "summary"}
  /\ \E d \in Docs :
       /\ outcome[d] = "Updated"
       /\ store[d].title = "B" /\ store[d].summary = "S1"
       /\ store[d].content = "C0" /\ store[d].created = "D0"
       /\ store[d].document_type = 0 /\ store[d].correspondent = 0
       /\ store[d].tags = <<>>
  /\ storeCorr = <<>> /\ storeTags = <<"Acme">>

\* UPDATE_FIELDS has been parsed by the running (or ended) process
Parsed == run > 0

\* the names listed in a comma-separated text: x..y is a name of env when
\* it lies in a stretch a..b between two commas (or the ends of the text),
\* starts and ends with a character that is not white space, and has
\* nothing but white space before and after it within the stretch
ListedNames(env) ==
  LET n == Len(env)
      Stretch(a, b) ==
        /\ a = 1 \/ env[a - 1] = ","
        /\ b = n \/ env[b + 1] = ","
        /\ \A k \in a..b : env[k] # ","
      Blank(a, b) == \A k \in a..b : IsSpace(env[k])
  IN {Concat(SubSeq(env, q[2], q[3])) :
        q \in {r \in (1..n) \X (1..n) \X (1..n) \X (1..n) :
                 /\ r[1] <= r[2] /\ r[2] <= r[3] /\ r[3] <= r[4]
                 /\ Stretch(r[1], r[4])
                 /\ Blank(r[1], r[2] - 1) /\ Blank(r[3] + 1, r[4])
                 /\ ~IsSpace(env[r[2]]) /\ ~IsSpace(env[r[3]])}}

\* C12: once UPDATE_FIELDS is parsed, updateFields is the full enumeration
\* of the seven field names when the variable is empty or unset, and
\* otherwise it is exactly the set of the trimmed, non-empty
\* comma-separated names of its value: names that are no field name are
\* in it, and no default name is added.
C12_ParseUpdateFields ==
  Parsed =>
    updateFields =
      IF updateFieldsEnv = <<>>
      THEN {"title", "document_type", "document_date", "summary", "content",
            "correspondent", "tags"}
      ELSE ListedNames(updateFieldsEnv)

\* C12 witness: UPDATE_FIELDS=" title,titletags" parsed to
\* {"title", "titletags"}: trimmed, the unknown name kept, none of the other
\* defaults added.
C12_Witness ==
  /\ Parsed
  /\ updateFieldsEnv = <<" ", "title", ",", "title", "tags">>
  /\ updateFields = {"title", "titletags"}

\* serialize: the names, in some order, joined with commas
RECURSIVE SerializeFields(_)
SerializeFields(names) ==
  IF names = <<>> THEN <<>>
  ELSE IF Len(names) = 1 THEN names[1]
  ELSE names[1] \o <<",">> \o SerializeFields(Tail(names))

\* the ways of putting a set in a sequence, each element once
Orderings(S) == {o \in [1..Cardinality(S) -> S] : Range(o) = S}

\* the names of updateFields as sequences of characters
ParsedNames(env) ==
  IF env = <<>> THEN {<<f>> : f \in AllFields} ELSE FieldTokens(env)

\* parse(serialize(parse(env))) is parse(env), however serialize orders
RoundTrips(env) ==
  \A o \in Orderings(ParsedNames(env)) :
    ParseUpdateFields(SerializeFields(o)) = ParseUpdateFields(env)

\* C13 as claimed: for every comma-separated value of UPDATE_FIELDS,
\* parsing the serialization of the parsed set gives the parsed set.
C13_RoundTripAlways ==
  Parsed => /\ updateFields = ParseUpdateFields(updateFieldsEnv)
            /\ RoundTrips(updateFieldsEnv)

\* C13 amended: the same for every value of UPDATE_FIELDS that is empty or
\* has at least one name left after trimming and dropping the empty tokens;
\* a value of nothing but commas and white space parses to the empty set,
\* whose serialization is the empty text, which parses to all seven fields.
C13_RoundTripUnlessNoName ==
  Parsed /\ (updateFieldsEnv = <<>> \/ updateFields # {}) =>
    /\ updateFields = ParseUpdateFields(updateFieldsEnv)
    /\ RoundTrips(updateFieldsEnv)

\* C13 witness: UPDATE_FIELDS="title ,tags," parsed to {title, tags}, which
\* serializes to "title,tags" or "tags,title".
C13_Witness ==
  /\ Parsed
  /\ updateFieldsEnv = <<"title", " ", ",", "tags", ",">>
  /\ updateFields = {"title", "tags"}
  /\ <<"tags", ",", "title">> \in
       {SerializeFields(o) : o \in Orderings(ParsedNames(updateFieldsEnv))}

\* C14: within one run a document gets at most one UpdateDocument call.
\* The call is the step taken from pc = "apply"; it is taken only for a
\* document that has no outcome yet in this run, it gives the document an
\* outcome whether it succeeds or fails, an outcome once given stays as it
\* is until the next run starts, the documents of the store are written by
\* no other step, and the list the loop ranges over has no id twice.
C14_AtMostOneUpdatePerRun ==
  [][ /\ pc = "apply" =>
           /\ outcome[doc] = "none"
           /\ outcome'[doc] \in {"Updated", "SkippedError"}
           /\ idx' = idx + 1
      /\ \A d \in Docs :
           outcome[d] # "none" /\ run' = run => outcome'[d] = outcome[d]
      /\ store' # store => pc = "apply"
      /\ NoDup(docs')
    ]_vars

\* C14 witness: a run of two documents has ended; the update of the first
\* was sent and failed for the client although the store applied it, the
\* second was Updated; each was written once.
C14_Witness ==
  /\ pc = "loop" /\ Len(docs) = 2 /\ idx = 2
  /\ outcome[docs[1]] = "SkippedError"
  /\ store[docs[1]].marker = processID /\ updatedAt[docs[1]] = {}
  /\ outcome[docs[2]] = "Updated"

\* the step is an UpdateDocument call that returns an error to main
UpdateFails == pc = "apply" /\ outcome'[doc] # "Updated"

\* C15 as claimed: when UpdateDocument returns an error the document's
\* llm-process-id in the store is what it was, and the loop goes on with
\* the next document.
C15_FailedUpdateKeepsMarker ==
  [][ UpdateFails =>
        /\ store'[doc].marker = store[doc].marker
        /\ pc' = "loop" /\ idx' = idx + 1
    ]_vars

\* C15 amended: when UpdateDocument returns an error the document ends in
\* SkippedError and the loop goes on with the next document; the store
\* either has not applied the PATCH, and then the document, its
\* llm-process-id included, is what it was, or has applied it before the
\* error reached the client, and then llm-process-id is the run's
\* processID; no other document is written.
C15_FailedUpdateKeepsOrSetsMarker ==
  [][ UpdateFails =>
        /\ outcome'[doc] = "SkippedError"
        /\ pc' = "loop" /\ idx' = idx + 1
        /\ \/ store'[doc] = store[doc]
           \/ /\ store'[doc] = ApplyPatch(store[doc], Marshal(update))
              /\ store'[doc].marker = processID
        /\ \A d \in Docs \ {doc} : store'[d] = store[d]
        /\ UNCHANGED <<updatedAt, docs, runVars>>
    ]_vars

\* C15 witness: in a run at version 2 the first of two documents got as far
\* as creating a tag, its update failed, its marker is still 1 and the loop
\* stands before the second document.
C15_Witness ==
  /\ run = 1 /\ processID = 2
  /\ pc = "loop" /\ idx = 1 /\ Len(docs) = 2
  /\ outcome[docs[1]] = "SkippedError"
  /\ store[docs[1]].marker = 1
  /\ Len(storeTags) > 1

\* the documents the run before left in SkippedError
FailedBefore == {d \in Docs : prevOutcome[d] = "SkippedError"}

\* C16 as claimed: a document left in SkippedError is not handled again in
\* the same run, and the next run at the same version lists it (its
\* llm-skip not being true).
C16_FailedAlwaysRelisted ==
  SameVersionRerun =>
    \A d \in FailedBefore : ~store[d].skip => d \in Range(docs)

\* the next run at the same version lists every document the run before
\* left in SkippedError, but those whose PATCH the store had applied
FailedRelisted ==
  SameVersionRerun =>
    \A d \in FailedBefore :
      ~store[d].skip /\ store[d].marker # processID => d \in Range(docs)

\* C16 amended: a document left in SkippedError is not handled again in the
\* same run (the loop only moves forward over a list without repetition,
\* and the outcome stays), and the next run at the same version lists it,
\* its llm-skip not being true, unless the failure was an update the store
\* had applied, which left the marker at that version.
C16_FailedRelistedUnlessApplied ==
  [][ /\ FailedRelisted'
      /\ run' = run =>
           /\ idx' >= idx \/ pc' = "done"
           /\ \A d \in Docs :
                outcome[d] = "SkippedError" => outcome'[d] = "SkippedError"
      /\ pc \in {"convert", "analyze", "corr", "tags", "apply"} =>
           outcome[doc] = "none"
      /\ NoDup(docs')
    ]_vars

\* C16 witness: the second run at version 2 lists the two documents the
\* first run at version 2 left in SkippedError.
C16_Witness ==
  /\ SameVersionRerun /\ processID = 2
  /\ FailedBefore = Docs
  /\ Range(docs) = Docs

\* the current document is about to be downloaded or rasterized
Fetching == (pc = "loop" /\ idx < Len(docs)) \/ pc = "convert"

\* C17: the download and the rasterization each either succeed, and the
\* document moves on, or fail, and then the document ends in SkippedError
\* and the loop stands at the next document (no second attempt, no end of
\* the run); up to there no page of the document was analyzed, and the
\* failing step leaves the store, its correspondents and tags, the
\* name-to-id maps and the update that was never built as they were.
C17_FetchFailureSkipsDocument ==
  [][ Fetching =>
        /\ i = 0 /\ pageLog = <<>> /\ ~analyzeErr
        /\ \/ pc = "loop" /\ pc' = "convert" /\ idx' = idx
           \/ pc = "convert" /\ pc' = "analyze" /\ idx' = idx
           \/ /\ pc' = "loop" /\ idx' = idx + 1
              /\ outcome' = [outcome EXCEPT ![doc] = "SkippedError"]
              /\ pageLog' = <<>> /\ i' = 0
        /\ UNCHANGED <<storeVars, cacheVars, updatedAt, resolveVars, docs,
                       runVars>>
    ]_vars

\* C17 witness: the first document of a run was skipped with nothing
\* written anywhere, and the second document has been downloaded.
C17_Witness ==
  /\ run = 1 /\ pc = "convert" /\ idx = 1 /\ Len(docs) = 2
  /\ outcome[docs[1]] = "SkippedError"
  /\ store[docs[1]].title = "T0" /\ store[docs[1]].model = ""
  /\ store[docs[1]].marker # processID
  /\ storeCorr = <<>> /\ storeTags = <<"Acme">>

\* nothing but the marker and the model is missing from the payload that
\* is ready: its tags are the ids resolved, its marker is the run's
UpdateReady ==
  pc = "apply" =>
    /\ update.Tags = tagIDs
    /\ HasCustom(Marshal(update), fieldName)
    /\ CustomValue(Marshal(update), fieldName) = processID

\* C18: resolving the correspondent and the tags never ends the document:
\* each step leads on towards the update.  The correspondent is either
\* put into the update under the id the store has for the name, or, its
\* resolution having failed, left out with the rest of the update as it
\* was.  Each tag either adds the id the store has for it after the ids
\* resolved before it, or, its resolution having failed, leaves those ids
\* as they are; the update then carries the ids resolved, in the order of
\* merged.Tags, and the marker.
C18_EnsureFailureOmitsEntity ==
  [][ /\ pc \in {"corr", "tags"} =>
           /\ pc' \in {"tags", "apply"}
           /\ idx' = idx /\ outcome' = outcome /\ UNCHANGED merged
      /\ pc = "corr" =>
           \/ update' = update /\ storeCorr' = storeCorr
           \/ \E id \in DOMAIN storeCorr' :
                /\ storeCorr'[id] = merged.Correspondent
                /\ update' = [update EXCEPT !.Correspondent = <<id>>]
      /\ pc = "tags" /\ pc' = "tags" =>
           /\ j' = j + 1
           /\ \/ tagIDs' = tagIDs /\ storeTags' = storeTags
              \/ \E id \in DOMAIN storeTags' :
                   /\ storeTags'[id] = merged.Tags[j + 1]
                   /\ tagIDs' = Append(tagIDs, id)
      /\ UpdateReady'
    ]_vars

\* C18 witness: of the tags IRS, Acme, John Smith the first could not be
\* created, the second was known and the third was created; the
\* correspondent Acme could not be created; the update is ready with the
\* two tag ids in order, without correspondent, with the marker.
C18_Witness ==
  /\ pc = "apply"
  /\ merged.Tags = <<"IRS", "Acme", "John Smith">>
  /\ storeTags = <<"Acme", "John Smith">>
  /\ update.Tags = <<1, 2>>
  /\ merged.Correspondent = "Acme" /\ "correspondent" \in updateFields
  /\ update.Correspondent = <<>>
  /\ CustomValue(Marshal(update), fieldName) = processID

\* a name-to-id map of a running process agrees with the store: it has
\* exactly the names of the store, each under the id of the entity of that
\* name, and the store has no name twice
CacheAgrees(existing, entities) ==
  /\ DOMAIN existing = Range(entities)
  /\ \A name \in DOMAIN existing :
       existing[name] \in DOMAIN entities /\ entities[existing[name]] = name
  /\ NoDup(entities)

\* the step creates nothing, or creates one entity whose name the map did
\* not have and puts it into the map under its new id
CreatesOnlyOnMiss(existing, entities, existingAfter, entitiesAfter) ==
  entitiesAfter # entities =>
    \E name \in Range(entitiesAfter) :
      /\ name \notin DOMAIN existing
      /\ entitiesAfter = Append(entities, name)
      /\ existingAfter = (name :> Len(entitiesAfter)) @@ existing

\* while the process runs, the map keeps every name it has under the same id
KeepsIds(existing, existingAfter) ==
  run' = run /\ pc' # "done" =>
    \A name \in DOMAIN existing :
      name \in DOMAIN existingAfter /\ existingAfter[name] = existing[name]

UnknownDocumentType ==
  /\ "document_type" \in updateFields
  /\ merged.DocumentType \notin DOMAIN docTypeIDByName

\* the payload that is ready has no document_type when the type is
\* unknown, and has the marker, the model and the title, summary, content
\* and date as the merged result gives them
UnknownTypeOmitted ==
  pc \in {"corr", "tags", "apply"} /\ UnknownDocumentType =>
    LET payload == Marshal(update)
    IN /\ "document_type" \notin DOMAIN payload
       /\ CustomValue(payload, fieldName) = processID
       /\ CustomValue(payload, modelFieldName) = ollamaModel
       /\ "title" \in updateFields => payload["title"] = merged.FileName
       /\ "summary" \in updateFields =>
            CustomValue(payload, summaryFieldName) = merged.Summary
       /\ "content" \in updateFields /\ merged.Transcription # "" =>
            payload["content"] = merged.Transcription
       /\ "document_date" \in updateFields /\ merged.DocumentDate # "" =>
            payload["created"] = merged.DocumentDate

\* C20: when document_type is in updateFields and the merged document type
\* is not a name of docTypeIDByName, the document is not abandoned: the end
\* of a page loop without failure leads on to the update, whose payload has
\* no document_type and has the marker and the other fields; a type that is
\* a name of docTypeIDByName is sent as its id.
C20_UnknownTypeOmitted ==
  [][ /\ (pc = "analyze" /\ ~analyzeErr /\ i = images) => pc' = "corr"
      /\ pc \in {"corr", "tags"} => pc' \in {"tags", "apply"}
      /\ UnknownTypeOmitted'
      /\ (pc' = "apply" /\ "document_type" \in updateFields
            /\ merged'.DocumentType \in DOMAIN docTypeIDByName') =>
           Marshal(update')["document_type"] =
             docTypeIDByName'[merged'.DocumentType]
    ]_vars

\* C20 witness: with every field asked for, pages that merge to the type
\* Memo, which the store does not have, and to a file name, a transcription
\* and a date: the update is ready without document_type, with the rest.
C20_Witness ==
  /\ pc = "apply" /\ updateFields = AllFields
  /\ merged.DocumentType = "Memo" /\ "Memo" \notin DOMAIN docTypeIDByName
  /\ DOMAIN Marshal(update) =
       {"title", "content", "correspondent", "tags", "created", "custom_fields"}
  /\ Marshal(update)["title"] = "B"
  /\ CustomValue(Marshal(update), fieldName) = processID

----------------------------------------------------------------------------
(* C21 *)

\* the page loop holds the answer of AnalyzeStructured to a response
Answered == pc = "analyze" /\ response # NoResponse

\* C21: AnalyzeStructured returns an error and no analysis whenever the
\* content of the inference response is empty or is not a JSON object with
\* the required keys of the schema, and returns a page analysis only for a
\* non-empty content that conforms to the schema.
C21_ErrorUnlessConforming ==
  Answered => (analyzeErr <=> ~Conforms(response))

----------------------------------------------------------------------------
(* C22 *)

\* the step ends the batch process before the document loop is exhausted
AbortsRun == pc' = "fatal" /\ (pc # "fatal" \/ run' # run)

\* C22: the batch run is aborted only when the store's URL or credentials
\* are missing; no failure of a remote call (ensuring a custom field, the
\* listings of document types, correspondents and tags, the listing of the
\* unprocessed documents, download, analysis, update) ends the run.
C22_OnlyMissingConfigAborts ==
  [][AbortsRun => ~paperlessConfigured]_vars

----------------------------------------------------------------------------
(* C23 *)

\* the step changes what the store holds of document d
Writes(d) == store'[d] # store[d]

\* C23: the store's record of a document changes only in the step of the
\* one UpdateDocument call of its loop iteration, the step that ends the
\* iteration; the payload of that call carries llm-process-id, and after the
\* step the marker is the run's version and every semantic field has either
\* the value it had or is in that same payload.  Up to that step the record,
\* marker and fields, is what it was when the run started, so the fields of
\* a run are never in the store without its marker.
C23_MarkerWrittenWithFields ==
  [][ \A d \in Docs : Writes(d) =>
        /\ pc = "apply" /\ d = doc
        /\ pc' = "loop" /\ outcome'[d] # "none"
        /\ HasCustom(Marshal(update), fieldName)
        /\ store'[d].marker = processID
        /\ \A f \in AllFields :
             \/ StoredValue(store'[d], f) = StoredValue(store[d], f)
             \/ PayloadHas(Marshal(update), f)
    ]_vars

\* C23 witness: the first document of the run was Updated and holds the
\* marker together with the new title, while the second, whose payload with
\* a title is ready and for which a tag has been created, still has no
\* marker and its old title.
C23_Witness ==
  /\ pc = "apply" /\ idx = 1
  /\ outcome[docs[1]] = "Updated"
  /\ store[docs[1]].marker = processID /\ store[docs[1]].title = "B"
  /\ "title" \in DOMAIN Marshal(update)
  /\ storeTags # <<"Acme">>
  /\ store[doc].marker = NoMarker /\ store[doc].title = "T0"

----------------------------------------------------------------------------
(* C24 *)

\* the step is one call of AnalyzeStructured in the page loop
AnalysisCall == pc = "analyze" /\ pc' = "analyze"

\* the pages analyzed so far are the first i pages of the document, each
\* once
PagesInOrder ==
  /\ pc = "analyze" => Len(pageLog) = i /\ i <= images
  /\ pc \in {"corr", "tags", "apply"} => Len(pageLog) = i /\ i = images

\* the documents of the run are handled one after the other: the documents
\* before the current one have ended, the ones after it have not started,
\* and between two documents no per-document state is left
OneDocumentAtATime ==
  /\ \A k \in DOMAIN docs : outcome[docs[k]] = "none" <=> k > idx
  /\ pc \in {"idle", "list", "loop", "done", "fatal"} => NoDocument

\* C24: the analysis calls of a document are made one at a time for the
\* pages 1, 2, ... in this order, one call per page and none repeated; a
\* call is made only if no call of the document has failed and a page is
\* left; a failed call analyzes nothing more and the next step of the run
\* ends the document; at most one document is in progress in every state.
C24_PagesInOrderOnce ==
  [][ /\ AnalysisCall =>
           /\ ~analyzeErr /\ i < images
           /\ \/ i' = i + 1 /\ ~analyzeErr' /\ Len(pageLog') = Len(pageLog) + 1
              \/ i' = i /\ analyzeErr' /\ pageLog' = pageLog
      /\ analyzeErr => pc' = "loop" /\ idx' = idx + 1
      /\ PagesInOrder'
      /\ OneDocumentAtATime'
    ]_vars

\* C24 witness: the second document of a run has two pages; its first page
\* was analyzed and the call for its second page failed.
C24_Witness ==
  /\ pc = "analyze" /\ idx = 1 /\ outcome[docs[1]] # "none"
  /\ images = 2 /\ i = 1 /\ Len(pageLog) = 1 /\ analyzeErr

----------------------------------------------------------------------------
(* C25 *)

\* the process has ended
Terminated == pc \in {"done", "fatal"}

\* document d is in the list the run iterates over
Selected(d) == pc = "loop" /\ d \in Range(docs)

\* C25: when every external call returns, a started process ends, and every
\* document of the list it iterates over ends in Updated or in
\* SkippedError; the state a document ended in does not change for the rest
\* of the run.
C25_RunTerminates ==
  /\ (pc = "list") ~> Terminated
  /\ \A d \in Docs : Selected(d) ~> (outcome[d] \in {"Updated", "SkippedError"})
  /\ [][\A d \in Docs :
          outcome[d] # "none" /\ run' = run => outcome'[d] = outcome[d]]_vars
  /\ [](pc = "done" =>
          \A d \in Docs : outcome[d] \in {"none", "Updated", "SkippedError"})

\* C25 witness: a process has ended after the document loop with one of its
\* documents Updated and the other SkippedError.
C25_Witness ==
  /\ pc = "done"
  /\ \E d, e \in Docs : outcome[d] = "Updated" /\ outcome[e] = "SkippedError"

----------------------------------------------------------------------------
(* C26 *)

\* the page has no next cursor: Next is nil, or the empty URL
NoNextCursor(page) == page.next \in {<<>>, <<"">>}

\* the results of the pages the store serves at urls, one after the other
RECURSIVE ResultsAt(_)
ResultsAt(urls) ==
  IF urls = <<>> THEN <<>>
  ELSE serverPages[Head(urls)].results \o ResultsAt(Tail(urls))

\* the call has returned
Returned == pc = "paged"

\* the requests made so far follow the cursors: the first is for the URL of
\* the listing and each later one for the next cursor of the page before it
FollowsCursors ==
  \A k \in DOMAIN requests :
    IF k = 1 THEN requests[k] = FirstURL
    ELSE serverPages[requests[k - 1]].next = <<requests[k]>>

\* C26: listDocuments makes one request per page, the first for the URL of
\* the listing and each later one for the next cursor of the page before
\* it; it makes a further request exactly when the last page fetched has a
\* next cursor, and when that page has none (its next is nil or empty) it
\* returns, without error, the results of the pages requested, in the order
\* of the requests; when a request fails it returns the error and no
\* document, whatever the pages before it held.
C26_FollowsCursorsToTheEnd ==
  /\ FollowsCursors
  /\ \A k \in DOMAIN requests : requests[k] # ""
  /\ ~Returned =>
       /\ allDocs = ResultsAt(requests)
       /\ requests # <<>> =>
            (reqURL = "" <=> NoNextCursor(serverPages[requests[Len(requests)]]))
  /\ Returned /\ ~listed.err =>
       /\ requests # <<>>
       /\ NoNextCursor(serverPages[requests[Len(requests)]])
       /\ \A k \in 1..(Len(requests) - 1) :
            ~NoNextCursor(serverPages[requests[k]])
       /\ listed.docs = ResultsAt(requests)
  /\ Returned /\ listed.err =>
       /\ listed.docs = <<>>
       /\ allDocs = ResultsAt(SubSeq(requests, 1, Len(requests) - 1))

\* C26 witness: the listing has two pages; both were requested and the
\* call returned the documents of the first followed by those of the
\* second.
C26_Witness ==
  /\ Returned /\ ~listed.err
  /\ requests = <<"u1", "u2">>
  /\ serverPages["u1"].results = <<1>> /\ serverPages["u2"].results = <<2>>
  /\ listed.docs = <<1, 2>>

----------------------------------------------------------------------------
(* C27 *)

\* the step is an EnsureTag call of the first process for a name its map
\* does not have
EnsureMisses ==
  /\ pc = "tags" /\ pc' = "tags" /\ j' = j + 1
  /\ merged.Tags[j + 1] \notin DOMAIN tagIDByName

\* C27: each process decides on its own name-to-id map whether to create:
\* an EnsureTag call for a name the map of the calling process does not
\* have issues a create (the tag is appended to the store and its new id is
\* used, or the create fails and no id is used), also when the other
\* process has created a tag of that name since the map was loaded; and no
\* step of one process changes the map of the other.  So two concurrent
\* runs can both issue a create for the same name.
C27_EachRunCreatesOnItsOwnMiss ==
  [][ /\ EnsureMisses =>
           \/ /\ storeTags' = Append(storeTags, merged.Tags[j + 1])
              /\ tagIDs' = Append(tagIDs, Len(storeTags'))
           \/ storeTags' = storeTags /\ tagIDs' = tagIDs
      /\ peerTagIDByName' # peerTagIDByName => tagIDByName' = tagIDByName
      /\ tagIDByName' # tagIDByName => peerTagIDByName' = peerTagIDByName
    ]_vars

\* C27 witness: both processes have created the tag IRS; the store has it
\* twice and each map has it under its own id.
C27_Witness ==
  /\ "IRS" \in DOMAIN tagIDByName /\ "IRS" \in DOMAIN peerTagIDByName
  /\ tagIDByName["IRS"] # peerTagIDByName["IRS"]
  /\ storeTags[tagIDByName["IRS"]] = "IRS"
  /\ storeTags[peerTagIDByName["IRS"]] = "IRS"

----------------------------------------------------------------------------
(* C28 *)

\* the current document was converted to no page image
ZeroPages == images = 0 /\ pc \in {"analyze", "corr", "tags", "apply"}

----------------------------------------------------------------------------
(* C29 *)

\* the merge of no page
NothingMerged ==
  [merged |-> EmptyAnalysis, summaries |-> <<>>, transcriptions |-> <<>>,
   seenTags |-> {}]

\* the merge of the page results pages, from nothing
RECURSIVE MergeOf(_)
MergeOf(pages) ==
  IF pages = <<>> THEN NothingMerged
  ELSE MergePage(MergeOf(SubSeq(pages, 1, Len(pages) - 1)), pages[Len(pages)])

\* C29: for every document of a run, whatever the documents before it
\* were, the merge state is empty when its page loop starts, it is during
\* the page loop the merge of the document's own page results so far, and
\* the merged analysis its update is built from is the merge of the
\* document's own page results and of nothing else.
C29_MergeOfOwnPagesOnly ==
  /\ pc = "analyze" /\ i = 0 /\ ~analyzeErr => MergeState = NothingMerged
  /\ pc = "analyze" => MergeState = MergeOf(pageLog)
  /\ pc \in {"corr", "tags", "apply"} => merged = JoinPages(MergeOf(pageLog))

\* C29 witness: the first document of the run, whose pages named the file
\* B, was Updated; the second has one page, which names no file and the tag
\* IRS, and its merged analysis has no file name and only that tag.
C29_Witness ==
  /\ pc = "apply" /\ idx = 1
  /\ outcome[docs[1]] = "Updated" /\ store[docs[1]].title = "B"
  /\ Len(pageLog) = 1 /\ pageLog[1].FileName = ""
  /\ merged.FileName = "" /\ merged.Tags = <<"IRS">>
  /\ merged.Summary = ""

----------------------------------------------------------------------------
(* C30 *)

\* the step is an EnsureTag call for name
EnsuresTag(name) ==
  pc = "tags" /\ pc' = "tags" /\ name = merged.Tags[j + 1]

\* the step is the EnsureCorrespondent call for name
EnsuresCorrespondent(name) ==
  /\ pc = "corr" /\ "correspondent" \in updateFields
  /\ name = merged.Correspondent /\ name # ""

\* C30: an Ensure call for a name the map does not have whose create fails
\* (nothing is added to the store) gives no id and leaves the map as it
\* was, so the name is still not in the map and the next Ensure call for it
\* misses again; every Ensure call that misses issues a create, whatever
\* calls came before; an Ensure call for a name the map has makes no
\* request (the store is unchanged) and leaves the map unchanged; and while
\* the process runs no name of a map is removed or given another id.
C30_FailedCreateNotCached ==
  [][ /\ \A name \in Range(merged.Tags) :
           EnsuresTag(name) =>
             IF name \in DOMAIN tagIDByName
             THEN /\ storeTags' = storeTags /\ tagIDByName' = tagIDByName
                  /\ tagIDs' = Append(tagIDs, tagIDByName[name])
             ELSE \/ /\ storeTags' = storeTags
                     /\ tagIDByName' = tagIDByName /\ tagIDs' = tagIDs
                  \/ /\ storeTags' = Append(storeTags, name)
                     /\ tagIDByName' = (name :> Len(storeTags')) @@ tagIDByName
      /\ \A name \in {merged.Correspondent} :
           EnsuresCorrespondent(name) =>
             IF name \in DOMAIN corrIDByName
             THEN storeCorr' = storeCorr /\ corrIDByName' = corrIDByName
             ELSE \/ /\ storeCorr' = storeCorr
                     /\ corrIDByName' = corrIDByName
                     /\ update'.Correspondent = <<>>
                  \/ /\ storeCorr' = Append(storeCorr, name)
                     /\ corrIDByName' = (name :> Len(storeCorr')) @@ corrIDByName
      /\ KeepsIds(tagIDByName, tagIDByName')
      /\ KeepsIds(corrIDByName, corrIDByName')
    ]_vars

\* C30 witness: in the first run the create of the tag IRS failed for the
\* first document, which was Updated with the tag Acme alone; the Ensure
\* call of the second document for IRS issued the create again, and the
\* map now has IRS.
C30_Witness ==
  /\ run = 1 /\ idx = 1 /\ pc \in {"tags", "apply"}
  /\ outcome[docs[1]] = "Updated" /\ store[docs[1]].tags = <<1>>
  /\ "IRS" \in DOMAIN tagIDByName
  /\ tagIDs = <<1, 2>>

====
